---- MODULE Spec2Model ----
(***************************************************************************)
(* Model of the Equity_PyMC_Generative batch pipeline:                     *)
(*   run_daily.main   writes data/model_frame.parquet (the factor panel),  *)
(*   train_pymc.main  fits the model and writes                            *)
(*                    data/posterior_summaries.json, then data/idata.nc,   *)
(*   score_today      reads the three files and writes                     *)
(*                    data/today_scores.csv.                               *)
(*                                                                         *)
(* Numbers.  mu_1d, the intercepts, the loadings and sigma are integer     *)
(* multiples of one unit of 1e-12, so that the guard 1e-12 of              *)
(* score_today.py:121 is Eps == 1 and the floor 1e-6 of score_today.py:59  *)
(* is SigmaFloor == 1000000.  Factor values are plain integers.  A missing *)
(* value is NaN, which every arithmetic operation propagates and every     *)
(* comparison answers FALSE to, as IEEE-754 does.  A quotient is kept as   *)
(* the exact fraction num/den (den > 0); rounding is not modelled.         *)
(***************************************************************************)
EXTENDS Integers, Sequences, FiniteSets, TLC

VARIABLES
    frame,   \* data/model_frame.parquet: [keys, cols, rows]
    post,    \* data/posterior_summaries.json: [exists, obj]
    idata,   \* data/idata.nc: [exists, assets, features]
    out,     \* data/today_scores.csv: [exists, rows]
    status,  \* how the last run of score_today ended ("none" before any run)
    tick,    \* flips at every run of score_today
    prev,    \* data/today_scores.csv as the last run of score_today found it
    fit,     \* the run of train_pymc.main in progress: [pc, run, mem]
    origin,  \* the fit run that wrote each posterior file: [post, idata] (0: none)
    sig,     \* build_signals: its input frames, its runs and the panels returned
    ev,     \* eval_model.main: its runs, how the last ended, the pairs it made
    news,   \* the news tables: rows of news_raw and news_scored, scorer calls
    md      \* md_to_html: the lines given, the tags and texts returned

vars == <<frame, post, idata, out, status, tick, prev, fit, origin, sig, ev, news, md>>

(***************************************************************************)
(* Program constants                                                       *)
(***************************************************************************)
FEATURE_COLS ==
    << "beta_mkt", "log_mktcap", "value_z", "mom_12_1", "vol_20d",
       "illiq_amihud", "quality_z", "macro_sens", "credit_sens", "news_sent_7d" >>

Eps == 1

SigmaFloor == 1000000

\* Tickers of the model, in the order Python sorts their names.  AAPL and MSFT
\* belong to the training universe `keep`, TSLA does not.
TickerOrder == << "AAPL", "MSFT", "TSLA" >>

keep == {"AAPL", "MSFT", "AMZN", "GOOG", "META", "NVDA", "CRM", "TSM"}

(***************************************************************************)
(* Bounds of the model                                                     *)
(***************************************************************************)
MaxDate == 2      \* dates are 1..MaxDate, in ISO (= chronological) order
MaxVal == 2       \* factor values are NaN and -MaxVal..MaxVal
MaxRows == 3      \* rows of an enumerated factor panel
MaxFitRuns == 2   \* runs of train_pymc.main
MaxObs == 255     \* observations of a ticker in the prices frame
MaxSignalRuns == 2 \* calls of build_signals on the same frames
MaxEvalRuns == 1   \* runs of eval_model.main
MaxNewsRuns == 2   \* runs of run_news.main and of score_and_store_news
MaxLines == 4      \* lines of a markdown text

(***************************************************************************)
(* Helpers                                                                 *)
(***************************************************************************)
Range(s) == { s[i] : i \in DOMAIN s }

Tickers == Range(TickerOrder)

FeatureSet == Range(FEATURE_COLS)

Dates == 1..MaxDate

Rank(t) == CHOOSE i \in DOMAIN TickerOrder : TickerOrder[i] = t

\* a float: a number, or NaN
F(n) == [nan |-> FALSE, v |-> n]

NaN == [nan |-> TRUE, v |-> 0]

FAdd(a, b) == IF a.nan \/ b.nan THEN NaN ELSE F(a.v + b.v)

FMul(a, b) == IF a.nan \/ b.nan THEN NaN ELSE F(a.v * b.v)

FNeg(a) == IF a.nan THEN NaN ELSE F(-a.v)

\* a / b for a float a and a number b > 0, as an exact fraction
FDiv(a, b) == IF a.nan THEN [nan |-> TRUE, num |-> 0, den |-> 1]
              ELSE [nan |-> FALSE, num |-> a.v, den |-> b]

\* z > p/q and z < p/q (q > 0); FALSE for NaN
FGt(z, p, q) == ~z.nan /\ z.num * q > p * z.den

FLt(z, p, q) == ~z.nan /\ z.num * q < p * z.den

(***************************************************************************)
(* JSON values of the posterior summary                                    *)
(***************************************************************************)
Absent == [kind |-> "absent", seq |-> <<>>, names |-> <<>>, num |-> 0]

Null == [kind |-> "null", seq |-> <<>>, names |-> <<>>, num |-> 0]

\* a JSON array of numbers
JList(s) == [kind |-> "list", seq |-> s, names |-> <<>>, num |-> 0]

\* a JSON object {names[i]: s[i]}
JDict(n, s) == [kind |-> "dict", seq |-> s, names |-> n, num |-> 0]

JNum(x) == [kind |-> "num", seq |-> <<>>, names |-> <<>>, num |-> x]

\* a JSON string that float() parses to x, and one that float() rejects
JNumStr(x) == [kind |-> "numstr", seq |-> <<>>, names |-> <<>>, num |-> x]

JStr == [kind |-> "str", seq |-> <<>>, names |-> <<>>, num |-> 0]

SummaryKeys ==
    {"beta_mean", "beta", "alpha_mean", "alpha", "sigma_mean", "sigma", "sigma_mean_"}

NoObj == [k \in SummaryKeys |-> Absent]

\* k in post
HasKey(obj, k) == obj[k].kind # "absent"

\* post.get(k, default)
Get(obj, k, default) == IF HasKey(obj, k) THEN obj[k] ELSE default

\* dict.get(k, default) of a Python dict, a function on its keys
MapGet(m, k, default) == IF k \in DOMAIN m THEN m[k] ELSE default

\* dict(zip(keys, vals)): a later pair of a repeated key wins
ZipMap(keys, vals) ==
    [k \in Range(keys) |->
        vals[CHOOSE i \in DOMAIN keys :
                 keys[i] = k /\ \A j \in DOMAIN keys : keys[j] = k => j <= i]]

(***************************************************************************)
(* score_today.py                                                          *)
(***************************************************************************)
\* an _as_float_map_from_json that zips a list without comparing the lengths
_as_float_map_unchecked(value, keys) ==
    IF value.kind = "dict"
    THEN [err |-> "none", map |-> ZipMap(value.names, value.seq)]
    ELSE IF value.kind = "list"
    THEN LET n == IF Len(value.seq) < Len(keys) THEN Len(value.seq) ELSE Len(keys)
         IN [err |-> "none", map |-> ZipMap(SubSeq(keys, 1, n), SubSeq(value.seq, 1, n))]
    ELSE [err |-> "TypeError", map |-> <<>>]

\* a positional list read against the ordering from its end
_as_float_map_reversed(value, keys) ==
    IF value.kind = "dict"
    THEN [err |-> "none", map |-> ZipMap(value.names, value.seq)]
    ELSE IF value.kind = "list"
    THEN IF Len(value.seq) # Len(keys)
         THEN [err |-> "ValueError", map |-> <<>>]
         ELSE [err |-> "none",
               map |-> ZipMap(keys, [i \in DOMAIN value.seq |->
                                       value.seq[Len(value.seq) + 1 - i]])]
    ELSE [err |-> "TypeError", map |-> <<>>]

\* _as_float_map_from_json: [err, map]
_as_float_map_from_json(value, keys) ==
    IF value.kind = "dict"
    THEN [err |-> "none", map |-> ZipMap(value.names, value.seq)]
    ELSE IF value.kind = "list"
    THEN IF Len(value.seq) # Len(keys)
         THEN [err |-> "ValueError", map |-> <<>>]
         ELSE [err |-> "none", map |-> ZipMap(keys, value.seq)]
    ELSE [err |-> "TypeError", map |-> <<>>]

\* _get_sigma: the first alias that is present, not null, numeric and > 0
SigmaAliases == << "sigma_mean", "sigma", "sigma_mean_" >>

\* float(post[k]) of line 54 does not raise: a number, or a string of one
FloatParses(v) == v.kind \in {"num", "numstr"}

SigmaUsable(obj, k) == HasKey(obj, k) /\ FloatParses(obj[k]) /\ obj[k].num > 0

\* a _get_sigma without the test s > 0
_get_sigma_any_number(obj) ==
    IF \E i \in DOMAIN SigmaAliases : FloatParses(obj[SigmaAliases[i]])
    THEN LET i == CHOOSE i \in DOMAIN SigmaAliases :
                      /\ FloatParses(obj[SigmaAliases[i]])
                      /\ \A j \in 1..(i - 1) : ~FloatParses(obj[SigmaAliases[j]])
         IN obj[SigmaAliases[i]].num
    ELSE SigmaFloor

_get_sigma(obj) ==
    IF \E i \in DOMAIN SigmaAliases : SigmaUsable(obj, SigmaAliases[i])
    THEN LET i == CHOOSE i \in DOMAIN SigmaAliases :
                      /\ SigmaUsable(obj, SigmaAliases[i])
                      /\ \A j \in 1..(i - 1) : ~SigmaUsable(obj, SigmaAliases[j])
         IN obj[SigmaAliases[i]].num
    ELSE SigmaFloor

\* df.sort_values(["ticker", "dt"])
RowBefore(a, b) ==
    \/ Rank(a.ticker) < Rank(b.ticker)
    \/ a.ticker = b.ticker /\ a.dt < b.dt

\* rows in ascending order, one first row after another (any frame)
RECURSIVE SortBySelection(_)
SortBySelection(rows) ==
    IF rows = {} THEN <<>>
    ELSE LET m == CHOOSE r \in rows : \A q \in rows : ~RowBefore(q, r)
         IN <<m>> \o SortBySelection(rows \ {m})

\* the rows of one ticker in ascending dt: where no two rows share a date,
\* the row of each of the ticker's dates, the dates taken in ascending order
SortByDt(R) ==
    LET D == {r.dt : r \in R}
        lo == CHOOSE d \in D : \A e \in D : d <= e
        hi == CHOOSE d \in D : \A e \in D : e <= d
        days == SelectSeq([k \in 1..(hi - lo + 1) |-> lo + k - 1], LAMBDA d : d \in D)
    IN IF R = {} THEN <<>>
       ELSE IF Cardinality(D) = Cardinality(R)
            THEN [i \in 1..Len(days) |-> CHOOSE r \in R : r.dt = days[i]] \o <<>>
            ELSE SortBySelection(R)

\* the rows of the tickers from the i-th in ticker order on, ticker by ticker
RECURSIVE SortFromTicker(_, _)
SortFromTicker(rows, i) ==
    IF i > Len(TickerOrder) THEN <<>>
    ELSE SortByDt({r \in rows : r.ticker = TickerOrder[i]}) \o SortFromTicker(rows, i + 1)

SortByTickerDt(rows) == SortFromTicker(rows, 1)

\* the elements of s whose index, from i on, is in I, in order
PickIdx(s, I, i) ==
    LET kept == SelectSeq([j \in 1..Len(s) |-> j], LAMBDA j : j >= i /\ j \in I)
    IN [k \in 1..Len(kept) |-> s[kept[k]]] \o <<>>

\* groupby("ticker").tail(n): the last n rows of each ticker, in the order of s
GroupTail(s, n) ==
    LET Later(i) == {j \in DOMAIN s : j > i /\ s[j].ticker = s[i].ticker}
    IN PickIdx(s, {i \in DOMAIN s : Len(s) - i < n \/ Cardinality(Later(i)) < n}, 1)

\* the first row of each ticker instead of the last (head(1) for tail(1))
LatestRows_first(fr) ==
    LET s == SortByTickerDt(fr.rows)
        Earlier(i) == {j \in DOMAIN s : j < i /\ s[j].ticker = s[i].ticker}
    IN PickIdx(s, {i \in DOMAIN s : Earlier(i) = {}}, 1)

\* lines 69-72: the latest row of each ticker, ordered by ticker
LatestRows(fr) == GroupTail(SortByTickerDt(fr.rows), 1)

\* no filtering by the asset index
FilterAssets_none(latest, assets) == latest

\* line 103: latest[latest["ticker"].isin(assets)]
FilterAssets(latest, assets) ==
    IF assets # <<>>
    THEN PickIdx(latest, {i \in DOMAIN latest : latest[i].ticker \in Range(assets)}, 1)
    ELSE latest

\* lines 106-108: a feature column the frame lacks is filled with 0.0
FillCols(fr, x) == [c \in FeatureSet |-> IF c \in fr.cols THEN x[c] ELSE F(0)]

\* xb assigned (=) where the code accumulates (+=)
XB_assign(x, beta_map, n) ==
    IF n = 0 THEN F(0)
    ELSE FMul(x[FEATURE_COLS[n]], F(MapGet(beta_map, FEATURE_COLS[n], 0)))

\* lines 114-116: xb over the first n feature columns
RECURSIVE XB(_, _, _)
XB(x, beta_map, n) ==
    IF n = 0 THEN F(0)
    ELSE FAdd(XB(x, beta_map, n - 1),
              FMul(x[FEATURE_COLS[n]], F(MapGet(beta_map, FEATURE_COLS[n], 0))))

\* lines 113-117: mu of one row
Mu(r, x, alpha_map, beta_map) ==
    FAdd(F(MapGet(alpha_map, r.ticker, 0)), XB(x, beta_map, Len(FEATURE_COLS)))

\* thresholds that include 0.5 and -0.5
label_inclusive(z) ==
    IF ~FLt(z, 1, 2) /\ ~z.nan THEN "undervalued"
    ELSE IF ~FGt(z, -1, 2) /\ ~z.nan THEN "overvalued"
    ELSE "neutral"

\* lines 124-129
label(z) ==
    IF FGt(z, 1, 2) THEN "undervalued"
    ELSE IF FLt(z, -1, 2) THEN "overvalued"
    ELSE "neutral"

\* norm.cdf(z), known by its position relative to 0.5: the standard normal
\* distribution function is strictly increasing and is 0.5 at 0
norm_cdf(z) ==
    IF z.nan THEN "nan"
    ELSE IF z.num > 0 THEN "above 0.5"
    ELSE IF z.num < 0 THEN "below 0.5"
    ELSE "0.5"

\* lines 110-131: the score row of one latest row
ScoreRow(fr, r, alpha_map, beta_map, sigma) ==
    LET x == FillCols(fr, r.x)
        mu == Mu(r, x, alpha_map, beta_map)
        z == FDiv(mu, sigma + Eps)
    IN [ticker |-> r.ticker, dt |-> r.dt, mu_1d |-> mu, sigma |-> sigma,
        z_score |-> z, p_pos |-> norm_cdf(FDiv(mu, sigma + Eps)),
        label |-> label(z), x |-> x]

\* z of a >= z of b, neither NaN
ZGe(a, b) == a.z_score.num * b.z_score.den >= b.z_score.num * a.z_score.den

\* r put into s, which is in descending z order, after the rows not below it
InsertDesc(s, r) ==
    LET k == Cardinality({i \in DOMAIN s : ZGe(s[i], r)})
    IN SubSeq(s, 1, k) \o <<r>> \o SubSeq(s, k + 1, Len(s))

RECURSIVE SortPrefix(_, _)
SortPrefix(s, n) == IF n = 0 THEN <<>> ELSE InsertDesc(SortPrefix(s, n - 1), s[n])

\* line 134: sort_values("z_score", ascending=False); NaN rows come last
sort_values(s) ==
    LET nums == PickIdx(s, {i \in DOMAIN s : ~s[i].z_score.nan}, 1)
        nans == PickIdx(s, {i \in DOMAIN s : s[i].z_score.nan}, 1)
    IN SortPrefix(nums, Len(nums)) \o nans

\* lines 68-134: how the run ends, and the rows it is about to write
score_rows(fr, po, id) ==
    LET latest == LatestRows(fr)
        obj == po.obj
        beta_val == Get(obj, "beta_mean", Get(obj, "beta", Null))
        beta_keys == IF id.features # <<>> THEN id.features ELSE FEATURE_COLS
        beta == _as_float_map_from_json(beta_val, beta_keys)
        alpha_val == Get(obj, "alpha_mean", Get(obj, "alpha", Null))
        alpha_keys == IF id.assets # <<>> THEN id.assets
                      ELSE [i \in DOMAIN latest |-> latest[i].ticker]
        alpha == _as_float_map_from_json(alpha_val, alpha_keys)
        sigma == _get_sigma(obj)
        kept == FilterAssets(latest, id.assets)
        scored == [i \in DOMAIN kept |->
                      ScoreRow(fr, kept[i], alpha.map, beta.map, sigma)]
    IN IF ~fr.exists \/ ~po.exists \/ ~id.exists
       THEN [status |-> "FileNotFoundError", rows |-> <<>>]
       ELSE IF beta_val.kind = "null" THEN [status |-> "KeyError", rows |-> <<>>]
       ELSE IF beta.err # "none" THEN [status |-> beta.err, rows |-> <<>>]
       ELSE IF alpha_val.kind = "null" THEN [status |-> "KeyError", rows |-> <<>>]
       ELSE IF alpha.err # "none" THEN [status |-> alpha.err, rows |-> <<>>]
       ELSE [status |-> "ok", rows |-> sort_values(scored)]

\* a to_csv that appends to the file it finds
to_csv_append(old, rows) == [exists |-> TRUE, rows |-> old.rows \o rows]

\* line 136: out.to_csv(out_path) replaces the file
to_csv(old, rows) == [exists |-> TRUE, rows |-> rows]

\* a score_today that raises when no ticker is left to score
score_today_empty_raises(fr, po, id, old) ==
    LET r == score_rows(fr, po, id)
    IN IF r.status # "ok" THEN [status |-> r.status, out |-> old]
       ELSE IF r.rows = <<>> THEN [status |-> "ValueError", out |-> old]
       ELSE [status |-> "ok", out |-> to_csv(old, r.rows)]

\* score_today: [status, out] from the three input files and the old output;
\* an exception leaves the output file as it was
score_today(fr, po, id, old) ==
    LET r == score_rows(fr, po, id)
    IN IF r.status # "ok" THEN [status |-> r.status, out |-> old]
       ELSE [status |-> "ok", out |-> to_csv(old, r.rows)]

(***************************************************************************)
(* train_pymc.py                                                           *)
(***************************************************************************)
\* "2023-01-01" of main, as a date of the model: date 1 is before it
TrainCutoff == 2

TailCap == 500

\* main without the tail(500) of line 154
TrainFrame_uncapped(fr) ==
    SortByTickerDt({r \in fr.rows : r.dt >= TrainCutoff /\ r.ticker \in keep})

\* main, lines 142-154: the frame handed to fit_model
TrainFrame(fr) ==
    LET recent == {r \in fr.rows : r.dt >= TrainCutoff}
        kept == {r \in recent : r.ticker \in keep}
    IN GroupTail(SortByTickerDt(kept), TailCap)

TARGET == "ret_1d"

\* the columns fit_model requires beside FEATURE_COLS (line 37)
KeyCols == {TARGET, "ticker", "dt"}

\* a run that raised nothing
NoErr == [kind |-> "none", cols |-> {}]

\* a check that looks at the factor columns alone
MissingCols_features(fr) == FeatureSet \ fr.cols

\* fit_model, line 37: the required columns the frame lacks
MissingCols(fr) == (KeyCols \ fr.keys) \cup (FeatureSet \ fr.cols)

\* fit_model, lines 37-39: ValueError with the list of the missing columns
fit_model_raises(fr) ==
    IF MissingCols(fr) # {} THEN [kind |-> "ValueError", cols |-> MissingCols(fr)]
    ELSE NoErr

\* main, lines 142-160: df["dt"] (line 145) and df["ticker"] (line 149) raise
\* KeyError on a frame without the column, before fit_model is called
main_raises(fr) ==
    IF "dt" \notin fr.keys THEN [kind |-> "KeyError", cols |-> {"dt"}]
    ELSE IF "ticker" \notin fr.keys THEN [kind |-> "KeyError", cols |-> {"ticker"}]
    ELSE fit_model_raises(fr)

\* fit_model, line 42: dropna(subset=[TARGET] + FEATURE_COLS)
DropNa(s) ==
    PickIdx(s, {i \in DOMAIN s :
                  ~s[i].ret_1d.nan /\ \A c \in DOMAIN s[i].x : ~s[i].x[c].nan}, 1)

\* the (ticker, date) of each row of a frame, in the frame's order: which
\* observation each element of y, and of its posterior predictive, stands for
KeysOf(s) == [i \in DOMAIN s |-> <<s[i].ticker, s[i].dt>>]

\* fit_model, lines 45-47: the categories of the ticker column, sorted
AssetNames(s) ==
    PickIdx(TickerOrder,
            {i \in DOMAIN TickerOrder : \E j \in DOMAIN s : s[j].ticker = TickerOrder[i]}, 1)

\* export_posterior, lines 98-111: the keys of the payload score_today reads
ExportedSummary(mem) ==
    [exists |-> TRUE,
     obj |-> [NoObj EXCEPT !["beta_mean"] = JList(mem.beta),
                           !["alpha_mean"] = JList(mem.alpha),
                           !["sigma_mean"] = JNum(mem.sigma)]]

\* a trace whose asset coordinate is in another order than the fit's index
SavedIdata_reversed(mem) ==
    [exists |-> TRUE,
     assets |-> [i \in DOMAIN mem.assets |-> mem.assets[Len(mem.assets) + 1 - i]],
     features |-> FEATURE_COLS, y |-> mem.df]

\* az.to_netcdf(idata), line 165: the coordinates score_today reads
SavedIdata(mem) ==
    [exists |-> TRUE, assets |-> mem.assets, features |-> FEATURE_COLS, y |-> mem.df]

(***************************************************************************)
(* transform/signals.py.  The input frames of build_signals are a record  *)
(* `in`: n[t] observations of ticker t in prices (0: none), on the dates   *)
(* start[t] + 1 .. start[t] + n[t], with the close 10 + k * slope[t] at    *)
(* the k-th; the dates of the macro frame; the fundamentals snapshots; the *)
(* tickers of the news frame.  A rolling statistic is a real number fixed  *)
(* by the prices that integers cannot hold: where it is defined its value  *)
(* is stat[t], a number of the input; where it is defined is computed.     *)
(***************************************************************************)
MomShort == 21

MomLong == 252

VolWindow == 20

BetaWindow == 60

\* market_ticker
MARKET == "SPY"

SigTickers == {"AAPL", "MSFT", "SPY"}

Max(a, b) == IF a >= b THEN a ELSE b

\* np.log in units of ln 2, exact on the powers of two the inputs hold
RECURSIVE Log2(_)
Log2(x) == IF x <= 1 THEN 0 ELSE 1 + Log2(x \div 2)

\* _safe_log; the result is kept in hundredths of ln 2, so that the epsilon
\* of the standardisation is small beside a difference of two logs
_safe_log(x) == IF x.nan THEN NaN ELSE F(100 * Log2(Max(x.v, Eps)))

Close(in, t, k) == 10 + k * in.slope[t]

DateOf(in, t, k) == in.start[t] + k

\* the observation of t on date d, if it is in 1..n[t]
ObsAt(in, t, d) == d - in.start[t]

\* groupby("ticker")["close"].pct_change(periods) at the k-th observation
pct_change(in, t, k, periods) ==
    IF k - periods >= 1
    THEN FDiv(F(Close(in, t, k) - Close(in, t, k - periods)), Close(in, t, k - periods))
    ELSE FDiv(NaN, 1)

\* line 117
ret_1d(in, t, k) == pct_change(in, t, k, 1)

\* a momentum of the 21-observation return alone
mom_12_1_short(in, t, k) ==
    IF pct_change(in, t, k, MomShort).nan THEN NaN ELSE F(in.stat[t])

\* lines 120-122: defined where both returns are
mom_12_1(in, t, k) ==
    IF pct_change(in, t, k, MomLong).nan \/ pct_change(in, t, k, MomShort).nan
    THEN NaN ELSE F(in.stat[t])

\* rolling(w) of a column of t at k: all of the last w observations defined
\* line 125
vol_20d(in, t, k) ==
    IF k - VolWindow + 1 >= 1 /\ \A j \in (k - VolWindow + 1)..k : ~ret_1d(in, t, j).nan
    THEN F(in.stat[t]) ELSE NaN

\* line 129: close * volume over 20 observations, volume always defined
dollar_vol_20d(in, t, k) == IF k - VolWindow + 1 >= 1 THEN F(in.stat[t]) ELSE NaN

\* lines 130-131
illiq_amihud(in, t, k) ==
    IF k - VolWindow + 1 >= 1 /\ \A j \in (k - VolWindow + 1)..k : ~ret_1d(in, t, j).nan
    THEN F(in.stat[t]) ELSE NaN

\* lines 137-138: the market's ret_1d of the same date, left-merged
mkt_ret_defined(in, t, k) ==
    LET m == ObsAt(in, MARKET, DateOf(in, t, k))
    IN m \in 1..in.n[MARKET] /\ ~ret_1d(in, MARKET, m).nan

\* rolling_beta, lines 85-88 and 141-143: 60 pairs of returns, all defined
beta_mkt(in, t, k) ==
    IF /\ k - BetaWindow + 1 >= 1
       /\ \A j \in (k - BetaWindow + 1)..k :
             ~ret_1d(in, t, j).nan /\ mkt_ret_defined(in, t, j)
    THEN F(in.stat[t]) ELSE NaN

\* lines 147-154: the standardised curve slope of the date, one value for all
\* tickers; NaN on a date the macro frame lacks, or when the frame has fewer
\* than two rows (the standard deviation of line 150 is NaN)
macro_sens(in, t, k) ==
    IF DateOf(in, t, k) \in in.macro /\ Cardinality(in.macro) >= 2
    THEN F(DateOf(in, t, k) % 2) ELSE NaN

\* line 155
credit_sens(in, t, k) ==
    IF DateOf(in, t, k) \in in.macro /\ Cardinality(in.macro) >= 2 /\ in.credit
    THEN F(DateOf(in, t, k) % 3) ELSE F(0)

\* the merged news column without the fillna(0.0) of line 110
news_sent_7d_unfilled(in, t, k) == IF t \in in.news THEN F(1) ELSE NaN

\* lines 106-112
news_sent_7d(in, t, k) == IF t \in in.news THEN F(1) ELSE F(0)

\* the columns of a fundamentals snapshot (fundamentals_yahoo.FIELDS)
FundCols ==
    {"market_cap", "trailing_pe", "price_to_book",
     "profit_margins", "operating_margins", "return_on_equity"}

\* attach_latest_fundamentals: the snapshot of t with the greatest asof,
\* left-merged on ticker, so NaN in every column for a ticker without one
attach_latest_fundamentals(in, t) ==
    LET mine == {f \in in.fund : f.ticker = t}
    IN IF mine = {} THEN [c \in FundCols |-> NaN]
       ELSE (CHOOSE f \in mine : \A g \in mine : g.asof <= f.asof).v

\* p[col].notna() & (p[col] > 0)
Usable(x) == ~x.nan /\ x.v > 0

\* the tickers with a row in prices
Present(in) == {t \in SigTickers : in.n[t] > 0}

\* lines 163-170
log_mktcap(in, t, k) ==
    IF Usable(attach_latest_fundamentals(in, t)["market_cap"])
    THEN _safe_log(attach_latest_fundamentals(in, t)["market_cap"])
    ELSE _safe_log(dollar_vol_20d(in, t, k))

\* np.where(usable, -_safe_log(p[col]), np.nan) for one row
NegLogWhereUsable(in, t, col) ==
    LET x == attach_latest_fundamentals(in, t)[col]
    IN IF Usable(x) THEN FNeg(_safe_log(x)) ELSE NaN

\* a value_raw that falls back to price_to_book row by row
value_raw_by_row(in, t) ==
    IF ~NegLogWhereUsable(in, t, "trailing_pe").nan
    THEN NegLogWhereUsable(in, t, "trailing_pe")
    ELSE NegLogWhereUsable(in, t, "price_to_book")

\* lines 173-187: price_to_book is used only when no row of the whole frame
\* has a usable trailing_pe (np.all(pd.isna(value_raw)))
value_raw(in, t) ==
    IF \A u \in Present(in) : NegLogWhereUsable(in, u, "trailing_pe").nan
    THEN NegLogWhereUsable(in, t, "price_to_book")
    ELSE NegLogWhereUsable(in, t, "trailing_pe")

\* lines 191-200: the first of the three margins that is not NaN
quality_raw(in, t) ==
    LET f == attach_latest_fundamentals(in, t)
    IN IF ~f["profit_margins"].nan THEN f["profit_margins"]
       ELSE IF ~f["operating_margins"].nan THEN f["operating_margins"]
       ELSE f["return_on_equity"]

\* the return of the same observation, where the code takes the next one
ret_1d_fwd_unshifted(in, t, k) == ret_1d(in, t, k)

\* line 205: groupby("ticker")["ret_1d"].shift(-1)
ret_1d_fwd(in, t, k) == IF k + 1 <= in.n[t] THEN ret_1d(in, t, k + 1) ELSE FDiv(NaN, 1)

\* column c of p at the k-th observation of t, before standardisation
Column(in, t, k, c) ==
    CASE c = "beta_mkt" -> beta_mkt(in, t, k)
      [] c = "log_mktcap" -> log_mktcap(in, t, k)
      [] c = "mom_12_1" -> mom_12_1(in, t, k)
      [] c = "vol_20d" -> vol_20d(in, t, k)
      [] c = "illiq_amihud" -> illiq_amihud(in, t, k)
      [] c = "macro_sens" -> macro_sens(in, t, k)
      [] c = "credit_sens" -> credit_sens(in, t, k)
      [] c = "news_sent_7d" -> news_sent_7d(in, t, k)
      [] c = "value_z" -> value_raw(in, t)
      [] OTHER -> quality_raw(in, t)

\* line 208: the row of p at the k-th observation of t, in the columns kept
SignalRow(in, t, k) ==
    [ticker |-> t, dt |-> DateOf(in, t, k), k |-> k,
     ret_1d |-> ret_1d_fwd(in, t, k),
     x |-> [c \in FeatureSet |-> Column(in, t, k, c)]]

\* a subset that also names the raw value column
DropSubset_with_value ==
    {"beta_mkt", "mom_12_1", "vol_20d", "illiq_amihud", "macro_sens", "log_mktcap",
     "value_z"}

\* line 210: the factor columns of the dropna subset (ret_1d is the other)
DropSubset ==
    {"beta_mkt", "mom_12_1", "vol_20d", "illiq_amihud", "macro_sens", "log_mktcap"}

\* the value of column c of a row before standardisation
RawCol(r, c) == r.x[c]

\* no column of the subset is NaN at the k-th observation of t
Complete(in, t, k) ==
    /\ ~mom_12_1(in, t, k).nan
    /\ ~ret_1d_fwd(in, t, k).nan
    /\ \A c \in DropSubset : ~Column(in, t, k, c).nan

\* lines 208-210
dropna(in) ==
    UNION { { SignalRow(in, t, k) : k \in {k \in 1..in.n[t] : Complete(in, t, k)} } :
              t \in Present(in) }

RECURSIVE SumF(_, _)
SumF(S, f) ==
    IF S = {} THEN 0
    ELSE LET q == CHOOSE q \in S : TRUE
         IN f[q] + SumF(S \ {q}, f)

\* a standardised value (x - mean) / (sd + 1e-12) of a date's column, kept
\* exact: x - mean = devn / n and sd * sd = varn / vard
ZNaN == [nan |-> TRUE, devn |-> 0, n |-> 1, varn |-> 0, vard |-> 1]

ZZero == [nan |-> FALSE, devn |-> 0, n |-> 1, varn |-> 0, vard |-> 1]

\* the population standard deviation (ddof = 0) where pandas takes the sample's
zscore_population(R, c, r) ==
    LET D == {q \in R : ~RawCol(q, c).nan}
        n == Cardinality(D)
        S == SumF(D, [q \in D |-> RawCol(q, c).v])
        Q == SumF(D, [q \in D |-> RawCol(q, c).v * RawCol(q, c).v])
    IN IF RawCol(r, c).nan \/ n < 1 THEN ZNaN
       ELSE [nan |-> FALSE, devn |-> n * RawCol(r, c).v - S, n |-> n,
             varn |-> n * Q - S * S, vard |-> n * n]

\* lines 217-219, 223-225, 230-232: column c of row r over the rows R of its
\* date; mean and std skip NaN, and the std of fewer than two values is NaN
zscore(R, c, r) ==
    LET D == {q \in R : ~RawCol(q, c).nan}
        n == Cardinality(D)
        S == SumF(D, [q \in D |-> RawCol(q, c).v])
        Q == SumF(D, [q \in D |-> RawCol(q, c).v * RawCol(q, c).v])
    IN IF RawCol(r, c).nan \/ n < 2 THEN ZNaN
       ELSE [nan |-> FALSE, devn |-> n * RawCol(r, c).v - S, n |-> n,
             varn |-> n * Q - S * S, vard |-> n * (n - 1)]

\* a fill that is left out
fillna_skipped(z) == z

\* lines 226 and 233: fillna(0.0)
fillna(z) == IF z.nan THEN ZZero ELSE z

\* build_signals: the factor panel returned, and how the call ended
build_signals(in) ==
    LET kept == dropna(in)
        SameDate(r) == {q \in kept : q.dt = r.dt}
    IN [status |-> "ok",
        rows |-> { [ticker |-> r.ticker, dt |-> r.dt, k |-> r.k, ret_1d |-> r.ret_1d,
                    x |-> [c \in FeatureSet |->
                             IF c \in {"value_z", "quality_z"}
                             THEN fillna(zscore(SameDate(r), c, r))
                             ELSE zscore(SameDate(r), c, r)]] : r \in kept }]

\* the caller's frames after a call that worked on them in place
frames_after_inplace(in) ==
    [in EXCEPT !.pcols = @ \cup {"news_sent_7d", "ret_1d", "mom_12_1", "vol_20d"}]

\* lines 102, 107, 147, 248: build_signals works on copies, so the caller's
\* frames are what they were
frames_after(in) == in

(***************************************************************************)
(* eval_model.py                                                           *)
(***************************************************************************)
\* the tail(500) of line 30
EvalTailCap == 500

\* lines 17-32: the frame sorted by ticker and dt, the rows of the trace's
\* assets, the last 500 of each ticker
df_fit(fr, id) ==
    LET df == SortByTickerDt(fr.rows)
    IN GroupTail(PickIdx(df, {i \in DOMAIN df : df[i].ticker \in Range(id.assets)}, 1),
                 EvalTailCap)

\* main, lines 17-36.  The i-th posterior-predictive mean belongs to the i-th
\* observation of the fit, id.y[i]; line 36 writes it beside the i-th row of
\* df_fit.  A file that is missing, a frame without its key columns or a
\* trace without an asset coordinate end the run before the assertion.
eval_model(fr, id) ==
    IF ~fr.exists \/ ~id.exists THEN [status |-> "FileNotFoundError", pairs |-> <<>>]
    ELSE IF ~({"ticker", "dt"} \subseteq fr.keys) \/ id.assets = <<>>
    THEN [status |-> "KeyError", pairs |-> <<>>]
    ELSE LET rows == df_fit(fr, id)
         IN IF Len(id.y) # Len(rows) THEN [status |-> "AssertionError", pairs |-> <<>>]
            ELSE [status |-> "ok",
                  pairs |-> [i \in 1..Len(rows) |->
                               [pred_of |-> id.y[i],
                                row |-> <<rows[i].ticker, rows[i].dt>>]]]

NoEval == [runs |-> 0, status |-> "none", pairs |-> <<>>]

(***************************************************************************)
(* nlp/score_news.py and run_news.py.  A table is the number of its rows   *)
(* per key: news_raw per (ticker, content_hash), news_scored per           *)
(* (content_hash, model_name); neither table has a key constraint          *)
(* (store/db.py:75-93).                                                    *)
(***************************************************************************)
\* nlp/finbert_score.py:6
MODEL_NAME == "ProsusAI/finbert"

ModelNames == {MODEL_NAME, "other"}

NewsTickers == {"AAPL", "MSFT"}

\* content hashes of articles; h2 has neither a title nor a description
NewsHashes == {"h1", "h2"}

\* line 29: (title + ". " + description).strip(), as a length
TextLen(h) == IF h = "h2" THEN 1 ELSE 10

RawKeys == NewsTickers \X NewsHashes

ScoredKeys == NewsHashes \X ModelNames

\* the rows of news_raw with content hash h
RawCount(raw, h) == SumF(NewsTickers, [t \in NewsTickers |-> raw[<<t, h>>]])

\* the rows to score keeping every raw row of a hash
drop_duplicates_skipped(n) == n

\* line 33: drop_duplicates("content_hash"), on the number of rows of one hash
drop_duplicates(n) == IF n > 0 THEN 1 ELSE 0

\* _load_scored_hashes, lines 9-15
_load_scored_hashes(scored, m) == {h \in NewsHashes : scored[<<h, m>>] > 0}

\* lines 23-33: the number of rows of todo per content hash (0 for every hash
\* when news_raw is empty, line 24)
todo(tb, m) ==
    [h \in NewsHashes |->
        IF TextLen(h) > 0 /\ h \notin _load_scored_hashes(tb.scored, m)
        THEN drop_duplicates(RawCount(tb.raw, h)) ELSE 0]

\* score_and_store_news, lines 18-63: every row of todo is scored once and
\* appended to news_scored under the model's name
score_and_store_news(tb, m) ==
    [tb EXCEPT
       !.scored = [k \in ScoredKeys |-> IF k[2] = m THEN @[k] + todo(tb, m)[k[1]] ELSE @[k]],
       !.calls = [k \in ScoredKeys |-> IF k[2] = m THEN @[k] + todo(tb, m)[k[1]] ELSE @[k]],
       !.added = SumF(NewsHashes, todo(tb, m))]

\* the tables after init_tables: no row, no call of the scorer
NoNews ==
    [raw |-> [k \in RawKeys |-> 0], scored |-> [k \in ScoredKeys |-> 0],
     calls |-> [k \in ScoredKeys |-> 0], added |-> 0, runs |-> 0, todo |-> 0]

(***************************************************************************)
(* app/services/markdown.py.  A text is the sequence of the kinds of its   *)
(* lines, in the order md_to_html tests them: a code fence (line 23), a    *)
(* heading (36-47), a list item (48), a blank line (53), any other line.   *)
(* The output is the sequence of its block tags; the text of a line is     *)
(* escaped (lines 15-18) and holds no tag.                                 *)
(***************************************************************************)
LineKinds == {"fence", "heading", "item", "blank", "para"}

\* lines 20-62, from the i-th line on
RECURSIVE RenderFrom(_, _, _, _, _)
RenderFrom(lines, i, in_code, in_list, html) ==
    IF i > Len(lines)
    THEN \* lines 64-67
         html \o (IF in_list THEN <<"</ul>">> ELSE <<>>)
              \o (IF in_code THEN <<"</code></pre>">> ELSE <<>>)
    ELSE IF lines[i] = "fence"
    THEN IF ~in_code
         THEN RenderFrom(lines, i + 1, TRUE, in_list, html \o <<"<pre><code>">>)
         ELSE RenderFrom(lines, i + 1, FALSE, in_list, html \o <<"</code></pre>">>)
    ELSE IF in_code
    THEN RenderFrom(lines, i + 1, in_code, in_list, html \o <<"text">>)
    ELSE IF lines[i] = "item"
    THEN RenderFrom(lines, i + 1, in_code, TRUE,
                    html \o (IF ~in_list THEN <<"<ul>">> ELSE <<>>) \o <<"<li>">>)
    ELSE RenderFrom(lines, i + 1, in_code, FALSE,
                    html \o (IF in_list THEN <<"</ul>">> ELSE <<>>)
                         \o <<CASE lines[i] = "heading" -> "<h1>"
                                [] lines[i] = "blank" -> "<div>"
                                [] OTHER -> "<p>">>)

\* md_to_html, lines 4-69
md_to_html(lines) == RenderFrom(lines, 1, FALSE, FALSE, <<>>)

NoMd == [text |-> <<>>, html |-> <<>>, done |-> FALSE]

\* the texts of at most MaxLines lines
MdTexts == UNION { [1..n -> LineKinds] : n \in 0..MaxLines }

(***************************************************************************)
(* The files, and the bounded sets their contents are drawn from           *)
(***************************************************************************)
NoFrame == [exists |-> FALSE, keys |-> {}, cols |-> {}, rows |-> {}]

NoPost == [exists |-> FALSE, obj |-> NoObj]

NoIdata == [exists |-> FALSE, assets |-> <<>>, features |-> <<>>, y |-> <<>>]

NoOut == [exists |-> FALSE, rows |-> <<>>]

\* no fit run has written a file yet
NoOrigin ==
    [post |-> 0, idata |-> 0, by |-> "none",
     mem |-> [assets |-> <<>>, beta |-> <<>>, alpha |-> <<>>, sigma |-> 0,
             handed |-> <<>>, df |-> <<>>]]

\* no diagnostics printed
NoDiag == [r_hat |-> 0, ess_bulk |-> 0, ppc |-> 0]

\* what diagnostics prints (train_pymc.py:125-133), r_hat in hundredths and
\* ppc the gap between the observed and the predictive mean in hundredths of
\* the observed std: a run that looks converged and one that does not
DiagnosticDraws ==
    { [r_hat |-> 100, ess_bulk |-> 2000, ppc |-> 1],
      [r_hat |-> 150, ess_bulk |-> 10, ppc |-> 300] }

IdleFit == [pc |-> "idle", run |-> 0, called |-> "none", err |-> NoErr,
            diag |-> NoDiag,
            mem |-> [assets |-> <<>>, beta |-> <<>>, alpha |-> <<>>, sigma |-> 0,
             handed |-> <<>>, df |-> <<>>]]

\* a FeatureRow of the factor panel (signals.py:208): its target is defined
\* (signals.py:210), a factor can be NaN
Row(t, d, x) == [ticker |-> t, dt |-> d, ret_1d |-> F(0), x |-> x]

\* the factor values of a row: v in column h, b in the others
HotVec(cols, h, v, b) == [c \in cols |-> IF c = h THEN v ELSE b]

HotVals == {F(-MaxVal), F(0), F(MaxVal)}

\* the factors build_signals standardises with the per-date mean and standard
\* deviation and does not fill afterwards (signals.py:213-219)
Standardised == FeatureSet \ {"value_z", "quality_z"}

\* signals.py:212-233 on a date with a single row: the sample standard
\* deviation of one value is NaN, so the standardised factors of the row are
\* NaN, and value_z and quality_z are filled with 0.0
ZScoreByDate(rows) ==
    LET Alone(r) == \A q \in rows : q.dt = r.dt => q = r
    IN { IF Alone(r)
         THEN [r EXCEPT !.x = [c \in DOMAIN r.x |->
                                  IF c \in Standardised THEN NaN ELSE F(0)]]
         ELSE r : r \in rows }

\* a vector of n numbers: w at position g, u elsewhere
HotSeq(n, g, w, u) == [i \in 1..n |-> IF i = g THEN w ELSE u]

IndexOf(s, e) == CHOOSE i \in DOMAIN s : s[i] = e

\* the asset indexes of the enumerated posteriors: none (a posterior without
\* an "asset" coordinate, score_today.py:78), AAPL and MSFT, all three tickers
AssetLists == { <<>>, SubSeq(TickerOrder, 1, 2), TickerOrder }

\* a panel with one row per key of K (pairs of ticker and date), varying in
\* the first feature column
StructFrame(K, val) ==
    [exists |-> TRUE, keys |-> KeyCols, cols |-> FeatureSet,
     rows |-> ZScoreByDate(
                 { Row(k[1], k[2], HotVec(FeatureSet, FEATURE_COLS[1], val[k], F(0))) : k \in K })]

\* the sets of at most MaxRows keys
KeySets == { K \in SUBSET (Tickers \X Dates) : Cardinality(K) <= MaxRows }

\* a summary as export_posterior writes it, with the given lists
ListSummary(beta, alpha, sigma) ==
    ExportedSummary([beta |-> beta, alpha |-> alpha, sigma |-> sigma])

\* the same values keyed by name
DictSummary(features, beta, assets, alpha, sigma) ==
    [exists |-> TRUE,
     obj |-> [NoObj EXCEPT !["beta_mean"] = JDict(features, beta),
                           !["alpha_mean"] = JDict(assets, alpha),
                           !["sigma_mean"] = JNum(sigma)]]

Input(fr, po, id) == [frame |-> fr, post |-> po, idata |-> id]

\* a panel against an asset index: a loading of 1 on the first factor, zero
\* intercepts, sigma 1
StructCase(fr, as) ==
    Input(fr,
          DictSummary(FEATURE_COLS, HotSeq(Len(FEATURE_COLS), 1, 1, 0),
                      TickerOrder, HotSeq(Len(TickerOrder), 0, 0, 0), 1),
          [exists |-> TRUE, assets |-> as, features |-> FEATURE_COLS, y |-> <<>>])

\* two tickers with one row each, of opposite values in the hot column, on one
\* date or on two: every hot column, base value, missing column, loading
\* vector, intercept list and sigma
ValueParams ==
    [h : DOMAIN FEATURE_COLS, v : HotVals, b : {0, 1}, d : Dates,
     dropHot : BOOLEAN, w : {-1, 0, 1}, u : {0, 1},
     alpha : {<<0, 0>>, <<1, -1>>, <<-1, 0>>}, sigma : {1, 3}]

ValueCase(p) ==
    LET hot == FEATURE_COLS[p.h]
        cols == IF p.dropHot THEN FeatureSet \ {hot} ELSE FeatureSet
        as == << TickerOrder[1], TickerOrder[2] >>
        beta == HotSeq(Len(FEATURE_COLS), p.h, p.w, p.u)
    IN Input([exists |-> TRUE, keys |-> KeyCols, cols |-> cols,
              rows |-> ZScoreByDate(
                          { Row(as[1], MaxDate, HotVec(cols, hot, p.v, F(p.b))),
                            Row(as[2], p.d, HotVec(cols, hot, FNeg(p.v), F(p.b))) })],
             ListSummary(beta, p.alpha, p.sigma),
             [exists |-> TRUE, assets |-> as, features |-> FEATURE_COLS, y |-> <<>>])

\* one panel against summaries of every shape: each loading and intercept
\* field missing, null, a list of the right or a wrong length, an object or a
\* number, under either key; the posterior with and without coordinates
RefFrame ==
    [exists |-> TRUE, keys |-> KeyCols, cols |-> FeatureSet,
     rows |-> { Row(TickerOrder[1], MaxDate, HotVec(FeatureSet, FEATURE_COLS[1], F(MaxVal), F(0))),
                Row(TickerOrder[2], MaxDate, HotVec(FeatureSet, FEATURE_COLS[1], F(-MaxVal), F(0))) }]

BetaShapes ==
    { Absent, Null, JNum(1),
      JList(HotSeq(Len(FEATURE_COLS), 1, 1, 0)),
      JList(HotSeq(Len(FEATURE_COLS) - 1, 1, 1, 0)),
      JDict(<<FEATURE_COLS[1]>>, <<1>>) }

AlphaShapes ==
    { Absent, Null, JNum(1), JList(<<1, 0>>), JList(<<1, 0, 0>>),
      JDict(<<TickerOrder[1]>>, <<1>>) }

SigmaShapes ==
    { NoObj,
      [NoObj EXCEPT !["sigma_mean"] = JNum(3)],
      [NoObj EXCEPT !["sigma_mean"] = JNum(0), !["sigma"] = JNum(1)] }

MalformedParams ==
    [so : SigmaShapes, bk : {"beta_mean", "beta"}, bv : BetaShapes,
     ak : {"alpha_mean", "alpha"}, av : AlphaShapes,
     as : {<<>>, <<TickerOrder[1]>>, <<TickerOrder[1], TickerOrder[2]>>},
     fs : {<<>>, FEATURE_COLS}]

\* the values a sigma key can hold: missing, null, numbers that are not
\* positive, positive numbers, a string of a number, a string, a list
SigmaVals == {Absent, Null, JNum(0), JNum(-1), JNum(2), JNum(3), JNumStr(2), JStr, JList(<<1>>)}

\* one value for each of the three sigma keys, beside well-formed loadings
\* and intercepts
SigmaParams == [a : SigmaVals, b : SigmaVals, c : SigmaVals]

SigmaCase(p) ==
    Input(RefFrame,
          [exists |-> TRUE,
           obj |-> [ListSummary(HotSeq(Len(FEATURE_COLS), 1, 1, 0), <<1, 0>>, 1).obj
                       EXCEPT ![SigmaAliases[1]] = p.a, ![SigmaAliases[2]] = p.b,
                              ![SigmaAliases[3]] = p.c]],
          [exists |-> TRUE, assets |-> SubSeq(TickerOrder, 1, 2),
           features |-> FEATURE_COLS, y |-> <<>>])

MalformedCase(p) ==
    Input(RefFrame,
          [exists |-> TRUE, obj |-> [p.so EXCEPT ![p.bk] = p.bv, ![p.ak] = p.av]],
          [exists |-> TRUE, assets |-> p.as, features |-> p.fs, y |-> <<>>])

\* a score file left by an earlier run, which scored AAPL and TSLA
PriorOut ==
    score_today(
        [exists |-> TRUE, keys |-> KeyCols, cols |-> FeatureSet,
         rows |-> { Row(TickerOrder[1], 1, HotVec(FeatureSet, FEATURE_COLS[1], F(1), F(0))),
                    Row(TickerOrder[3], 1, HotVec(FeatureSet, FEATURE_COLS[1], F(-1), F(0))) }],
        ListSummary(HotSeq(Len(FEATURE_COLS), 1, 1, 0), <<0, 0>>, 1),
        [exists |-> TRUE, assets |-> <<TickerOrder[1], TickerOrder[3]>>,
         features |-> FEATURE_COLS, y |-> <<>>],
        NoOut).out

\* the panels run_daily writes in the pipeline model: one row, on the last
\* date, for each ticker of T
PipelineFrame(T) == StructFrame(T \X {MaxDate}, [k \in T \X {MaxDate} |-> F(MaxVal)])

PipelineFrames == { PipelineFrame(T) : T \in SUBSET Tickers }

\* model frames that hold or lack each of the target, ticker and date columns
\* and the first two factor columns, with one row on the last date for each
\* ticker of T
FitFrameParams ==
    [keys : SUBSET KeyCols, drop : SUBSET {FEATURE_COLS[1], FEATURE_COLS[2]},
     T : SUBSET Tickers]

FitFrame(p) ==
    [exists |-> TRUE, keys |-> p.keys, cols |-> FeatureSet \ p.drop,
     rows |-> ZScoreByDate(
                 { Row(t, MaxDate, HotVec(FeatureSet \ p.drop, FEATURE_COLS[3], F(1), F(0))) :
                      t \in p.T })]

\* model frames with about TailCap rows per ticker: AAPL and MSFT have a row
\* on each of the dates 1..a and 1..m, TSLA, which is outside the universe of
\* main, on the first three dates or on none; date 1 is before the cutoff
LongFrameParams ==
    { [a |-> TailCap + 2, m |-> 2, tsla |-> TRUE],
      [a |-> TailCap + 1, m |-> 2, tsla |-> FALSE] }

LongFrame(p) ==
    LET x == HotVec(FeatureSet, FEATURE_COLS[3], F(1), F(0))
    IN [exists |-> TRUE, keys |-> KeyCols, cols |-> FeatureSet,
        rows |-> ZScoreByDate(
                    { Row(TickerOrder[1], d, x) : d \in 1..p.a }
                    \cup { Row(TickerOrder[2], d, x) : d \in 1..p.m }
                    \cup (IF p.tsla THEN { Row(TickerOrder[3], d, x) : d \in 1..3 }
                          ELSE {}))]

\* the posterior files an earlier fit run left
PriorPost == ListSummary(HotSeq(Len(FEATURE_COLS), 1, 1, 0), <<0, 0>>, 1)

PriorIdata ==
    [exists |-> TRUE, assets |-> SubSeq(TickerOrder, 1, 2), features |-> FEATURE_COLS, y |-> <<>>]

\* the posterior means a fit can produce for n assets
FitDraws(n) ==
    { [beta |-> HotSeq(Len(FEATURE_COLS), 1, 1, 0),
       alpha |-> [i \in 1..n |-> a * i], sigma |-> 1] : a \in {0, 1} }

\* the state of build_signals before any call
NoSig == [in |-> <<>>, given |-> <<>>, runs |-> 0, panel |-> {}, last |-> {},
          status |-> "none"]

\* a fundamentals snapshot (fundamentals_yahoo.fetch_fundamentals_snapshot)
Snap(t, asof, mc, pe, pb, pm) ==
    [ticker |-> t, asof |-> asof,
     v |-> [c \in FundCols |->
              CASE c = "market_cap" -> mc
                [] c = "trailing_pe" -> pe
                [] c = "price_to_book" -> pb
                [] c = "profit_margins" -> pm
                [] c = "operating_margins" -> NaN
                [] OTHER -> F(1)]]

\* three tickers with MaxObs observations each from date 1 on, a macro frame
\* that covers every date, one snapshot per stock and none for the market
BaseIn ==
    [n |-> [t \in SigTickers |-> MaxObs],
     start |-> [t \in SigTickers |-> 0],
     slope |-> [t \in SigTickers |-> IF t = "MSFT" THEN 2 ELSE 1],
     stat |-> [t \in SigTickers |-> IF t = "MSFT" THEN 1000 ELSE IF t = "AAPL" THEN 0 ELSE 500],
     macro |-> 1..(MaxObs + 1),
     credit |-> TRUE,
     fund |-> { Snap("AAPL", 2, NaN, F(4), F(2), F(2)), Snap("MSFT", 2, NaN, F(16), F(2), F(4)) },
     news |-> {},
     pcols |-> {"ticker", "dt", "close", "volume"}]

\* histories around the longest window: short, of exactly 252 observations,
\* and long enough for one row or two
ObsCounts == {1, MomLong, MaxObs - 1, MaxObs}

MarketCounts == {0, MomLong, MaxObs}

MacroSets == { {}, 1..(MomLong + 2), 1..(MaxObs + 1) }

HistoryParams ==
    [a : ObsCounts, m : ObsCounts, spy : MarketCounts, late : {0, 1}, macro : MacroSets]

HistoryCase(p) ==
    [BaseIn EXCEPT !.n = [t \in SigTickers |->
                            IF t = "AAPL" THEN p.a ELSE IF t = "MSFT" THEN p.m ELSE p.spy],
                   !.start = [t \in SigTickers |-> IF t = "AAPL" THEN p.late ELSE 0],
                   !.macro = p.macro]

\* the values of a fundamentals field: missing, not positive, positive
FundVals == {NaN, F(-2), F(4)}

FundParams ==
    [peA : FundVals, pbA : FundVals, peM : {NaN, F(-2), F(16)}, pbM : FundVals,
     mc : {NaN, F(16)}, pm : {NaN, F(2)}, old : BOOLEAN]

FundCase(p) ==
    [BaseIn EXCEPT
       !.fund = { Snap("AAPL", 2, p.mc, p.peA, p.pbA, p.pm),
                  Snap("MSFT", 2, NaN, p.peM, p.pbM, F(4)) }
                \cup (IF p.old THEN { Snap("AAPL", 1, F(2), F(8), F(8), F(8)) } ELSE {})]

\* the values of the rolling statistics, per ticker
StatVals == {0, 1, 1000}

StatParams ==
    [stat : [SigTickers -> StatVals], news : {{}, {"AAPL"}}, credit : BOOLEAN, late : {0, 1}]

StatCase(p) ==
    [BaseIn EXCEPT !.stat = p.stat, !.news = p.news, !.credit = p.credit,
                   !.start = [t \in SigTickers |-> IF t = "AAPL" THEN p.late ELSE 0]]

(***************************************************************************)
(* Actions                                                                 *)
(***************************************************************************)
\* a run of eval_model.main on the files on disk
EvalModel ==
    /\ ev.runs < MaxEvalRuns
    /\ LET r == eval_model(frame, idata)
       IN ev' = [runs |-> ev.runs + 1, status |-> r.status, pairs |-> r.pairs]
    /\ UNCHANGED <<frame, post, idata, out, status, tick, prev, fit, origin, sig, news, md>>

\* run_news.main, lines 26-39: the fetched batch, one row per (ticker,
\* content_hash, published_at) after line 33, is appended to news_raw, then
\* the default model scores
RunNews ==
    /\ news.runs < MaxNewsRuns
    /\ \E B \in SUBSET RawKeys :
          LET tb == [news EXCEPT !.raw = [k \in RawKeys |-> IF k \in B THEN @[k] + 1 ELSE @[k]]]
          IN news' = [score_and_store_news(tb, MODEL_NAME) EXCEPT
                         !.runs = news.runs + 1,
                         !.todo = SumF(NewsHashes, todo(tb, MODEL_NAME))]
    /\ UNCHANGED <<frame, post, idata, out, status, tick, prev, fit, origin, sig, ev, md>>

\* score_and_store_news called with a model name
ScoreNews ==
    /\ news.runs < MaxNewsRuns
    /\ \E m \in ModelNames :
          news' = [score_and_store_news(news, m) EXCEPT
                      !.runs = news.runs + 1,
                      !.todo = SumF(NewsHashes, todo(news, m))]
    /\ UNCHANGED <<frame, post, idata, out, status, tick, prev, fit, origin, sig, ev, md>>

\* a call of md_to_html on the text
RenderMd ==
    /\ ~md.done
    /\ md' = [md EXCEPT !.html = md_to_html(md.text), !.done = TRUE]
    /\ UNCHANGED <<frame, post, idata, out, status, tick, prev, fit, origin, sig, ev, news>>

\* run_daily.main: data/model_frame.parquet is replaced
BuildFrame ==
    /\ \E f \in PipelineFrames : frame' = f
    /\ UNCHANGED <<post, idata, out, status, tick, prev, fit, origin, sig, ev, news, md>>

\* train_pymc.main through diagnostics (lines 141-161): the frame is read,
\* the model fitted and the diagnostics printed
FitModel ==
    /\ fit.pc = "idle"
    /\ fit.run < MaxFitRuns
    /\ frame.exists
    /\ main_raises(frame) = NoErr
    /\ LET handed == TrainFrame(frame)
           df == DropNa(handed)
           assets == AssetNames(df)
       IN /\ df # <<>>
          /\ \E d \in FitDraws(Len(assets)) : \E g \in DiagnosticDraws :
                fit' = [pc |-> "fitted", run |-> fit.run + 1,
                        called |-> "main", err |-> NoErr, diag |-> g,
                        mem |-> [assets |-> assets, beta |-> d.beta,
                                 alpha |-> d.alpha, sigma |-> d.sigma,
                                 handed |-> KeysOf(handed), df |-> KeysOf(df)]]
    /\ UNCHANGED <<frame, post, idata, out, status, tick, prev, origin, sig, ev, news, md>>

\* train_pymc.main on a frame that lacks a required column: the run ends with
\* the exception, before pm.sample, export_posterior and az.to_netcdf
TrainFails ==
    /\ fit.pc = "idle"
    /\ fit.run < MaxFitRuns
    /\ frame.exists
    /\ main_raises(frame) # NoErr
    /\ fit' = [IdleFit EXCEPT !.run = fit.run + 1, !.called = "main",
                              !.err = main_raises(frame)]
    /\ UNCHANGED <<frame, post, idata, out, status, tick, prev, origin, sig, ev, news, md>>

\* fit_model called with the frame as it is (lines 33-77)
FitCall ==
    /\ fit.pc = "idle"
    /\ fit.run < MaxFitRuns
    /\ frame.exists
    /\ IF fit_model_raises(frame) # NoErr
       THEN fit' = [IdleFit EXCEPT !.run = fit.run + 1, !.called = "fit_model",
                                   !.err = fit_model_raises(frame)]
       ELSE LET handed == SortByTickerDt(frame.rows)
                df == DropNa(handed)
                assets == AssetNames(df)
            IN /\ df # <<>>
               /\ \E d \in FitDraws(Len(assets)) :
                     fit' = [pc |-> "fitted", run |-> fit.run + 1,
                             called |-> "fit_model", err |-> NoErr, diag |-> NoDiag,
                             mem |-> [assets |-> assets, beta |-> d.beta,
                                      alpha |-> d.alpha, sigma |-> d.sigma,
                                      handed |-> KeysOf(handed), df |-> KeysOf(df)]]
    /\ UNCHANGED <<frame, post, idata, out, status, tick, prev, origin, sig, ev, news, md>>

\* train_pymc.main, line 162: export_posterior writes the summary
\* an export that waits for diagnostics that look converged
ExportPosterior_gated ==
    /\ fit.pc = "fitted"
    /\ fit.diag.r_hat <= 105
    /\ post' = ExportedSummary(fit.mem)
    /\ origin' = [origin EXCEPT !.post = fit.run, !.mem = fit.mem]
    /\ fit' = [fit EXCEPT !.pc = "exported"]
    /\ UNCHANGED <<frame, idata, out, status, tick, prev, sig, ev, news, md>>

ExportPosterior ==
    /\ fit.pc = "fitted"
    /\ post' = ExportedSummary(fit.mem)
    /\ origin' = [origin EXCEPT !.post = fit.run, !.mem = fit.mem]
    /\ fit' = [fit EXCEPT !.pc = "exported"]
    /\ UNCHANGED <<frame, idata, out, status, tick, prev, sig, ev, news, md>>

\* train_pymc.main, line 165: the trace is saved, and the run ends
SaveIdata ==
    /\ fit.pc = "exported"
    /\ idata' = SavedIdata(fit.mem)
    /\ origin' = [origin EXCEPT !.idata = fit.run, !.by = fit.called]
    /\ fit' = [IdleFit EXCEPT !.run = fit.run, !.called = fit.called]
    /\ UNCHANGED <<frame, post, out, status, tick, prev, sig, ev, news, md>>

\* the fit run is interrupted between two of its steps
Interrupt ==
    /\ fit.pc # "idle"
    /\ fit' = [IdleFit EXCEPT !.run = fit.run]
    /\ UNCHANGED <<frame, post, idata, out, status, tick, prev, origin, sig, ev, news, md>>

\* one run of score_today
Score ==
    /\ LET r == score_today(frame, post, idata, out)
       IN status' = r.status /\ out' = r.out
    /\ tick' = 1 - tick
    /\ prev' = out
    /\ UNCHANGED <<frame, post, idata, fit, origin, sig, ev, news, md>>

\* one call of build_signals on the input frames
BuildSignals ==
    /\ sig.runs < MaxSignalRuns
    /\ LET r == build_signals(sig.in)
       IN sig' = [in |-> frames_after(sig.in), given |-> sig.given,
                  runs |-> sig.runs + 1, panel |-> r.rows, last |-> sig.panel,
                  status |-> r.status]
    /\ UNCHANGED <<frame, post, idata, out, status, tick, prev, fit, origin, ev, news, md>>

(***************************************************************************)
(* Specifications                                                          *)
(***************************************************************************)
\* the pipeline, from an empty data directory
Init ==
    /\ frame = NoFrame
    /\ post = NoPost
    /\ idata = NoIdata
    /\ out = NoOut
    /\ status = "none"
    /\ tick = 0
    /\ prev = NoOut
    /\ fit = IdleFit
    /\ origin = NoOrigin
    /\ md = NoMd
    /\ news = NoNews
    /\ ev = NoEval
    /\ sig = NoSig

Next ==
    \/ BuildFrame
    \/ FitModel
    \/ ExportPosterior
    \/ SaveIdata
    \/ Interrupt
    \/ Score

Spec == Init /\ [][Next]_vars

\* score_today as a function of its input files
Given(in) == frame = in.frame /\ post = in.post /\ idata = in.idata

InitScore ==
    /\ \/ \E K \in KeySets, as \in AssetLists :
              \E val \in [K -> HotVals] : Given(StructCase(StructFrame(K, val), as))
       \/ \E p \in ValueParams : Given(ValueCase(p))
       \/ \E p \in MalformedParams : Given(MalformedCase(p))
       \/ \E p \in SigmaParams : Given(SigmaCase(p))
    /\ out = PriorOut
    /\ status = "none"
    /\ tick = 0
    /\ prev = NoOut
    /\ fit = IdleFit
    /\ origin = NoOrigin
    /\ md = NoMd
    /\ news = NoNews
    /\ ev = NoEval
    /\ sig = NoSig

NextScore == status = "none" /\ Score

SpecScore == InitScore /\ [][NextScore]_vars

\* the Trainer on a model frame that may lack columns, with the posterior of
\* an earlier run on disk
InitFit ==
    /\ \/ \E p \in FitFrameParams : frame = FitFrame(p)
       \/ \E p \in LongFrameParams : frame = LongFrame(p)
    /\ post = PriorPost
    /\ idata = PriorIdata
    /\ out = NoOut
    /\ status = "none"
    /\ tick = 0
    /\ prev = NoOut
    /\ fit = IdleFit
    /\ origin = NoOrigin
    /\ md = NoMd
    /\ news = NoNews
    /\ ev = NoEval
    /\ sig = NoSig

NextFit ==
    \/ FitCall
    \/ FitModel
    \/ TrainFails
    \/ ExportPosterior
    \/ SaveIdata
    \/ EvalModel

SpecFit == InitFit /\ [][NextFit]_vars

\* the news pipeline on the tables init_tables creates
NextNews == RunNews \/ ScoreNews

SpecNews == Init /\ [][NextNews]_vars

\* md_to_html on every text of at most MaxLines lines
InitMarkdown ==
    /\ \E t \in MdTexts : md = [NoMd EXCEPT !.text = t]
    /\ frame = NoFrame
    /\ post = NoPost
    /\ idata = NoIdata
    /\ out = NoOut
    /\ status = "none"
    /\ tick = 0
    /\ prev = NoOut
    /\ fit = IdleFit
    /\ origin = NoOrigin
    /\ sig = NoSig
    /\ ev = NoEval
    /\ news = NoNews

NextMarkdown == RenderMd

SpecMarkdown == InitMarkdown /\ [][NextMarkdown]_vars

\* a run of main that is not killed goes from one statement to the next
\* (train_pymc.py:160-165)
SpecFitLive == InitFit /\ [][NextFit]_vars /\ WF_vars(ExportPosterior) /\ WF_vars(SaveIdata)

\* build_signals as a function of its input frames
InitSignals ==
    /\ \E in \in { HistoryCase(p) : p \in HistoryParams }
                 \cup { FundCase(p) : p \in FundParams }
                 \cup { StatCase(p) : p \in StatParams } :
           sig = [NoSig EXCEPT !.in = in, !.given = in]
    /\ frame = NoFrame
    /\ post = NoPost
    /\ idata = NoIdata
    /\ out = NoOut
    /\ status = "none"
    /\ tick = 0
    /\ prev = NoOut
    /\ fit = IdleFit
    /\ origin = NoOrigin
    /\ md = NoMd
    /\ news = NoNews
    /\ ev = NoEval

NextSignals == BuildSignals

SpecSignals == InitSignals /\ [][NextSignals]_vars

(***************************************************************************)
(* Properties.  Under SpecScore the input files never change, so a state    *)
(* after the run (status # "none") still holds the inputs the run read.    *)
(***************************************************************************)
Ran == status # "none"

Done == status = "ok"

PanelTickers == { r.ticker : r \in frame.rows }

IndexSet == Range(idata.assets)

HasIndex == idata.exists /\ idata.assets # <<>>

OutRows == Range(out.rows)

OutTickers == { r.ticker : r \in OutRows }

\* the tickers with a FeatureRow that the run scores
Scoreable == IF HasIndex THEN PanelTickers \cap IndexSet ELSE PanelTickers

\* the loading and intercept fields of the summary, under either key
LoadingField == IF HasKey(post.obj, "beta_mean") THEN post.obj["beta_mean"]
                ELSE post.obj["beta"]

InterceptField == IF HasKey(post.obj, "alpha_mean") THEN post.obj["alpha_mean"]
                  ELSE post.obj["alpha"]

\* the orderings a positional list is declared against
FeatureOrdering == IF idata.features # <<>> THEN idata.features ELSE FEATURE_COLS

AssetOrderingLen == IF idata.assets # <<>> THEN Len(idata.assets)
                    ELSE Cardinality(PanelTickers)

\* the summary lacks a field, or a list differs in length from its ordering
Malformed ==
    \/ LoadingField.kind = "absent"
    \/ InterceptField.kind = "absent"
    \/ LoadingField.kind = "list" /\ Len(LoadingField.seq) # Len(FeatureOrdering)
    \/ InterceptField.kind = "list" /\ Len(InterceptField.seq) # AssetOrderingLen

\* both fields are a list of the declared length or an object
WellFormed ==
    /\ LoadingField.kind \in {"list", "dict"}
    /\ InterceptField.kind \in {"list", "dict"}
    /\ ~Malformed

\* C1 (as claimed): a Scorer run that completes has read a posterior summary
\* and an asset/feature index written by one and the same fit run.
C1_OneFitRun ==
    [][tick' # tick /\ status' = "ok" => origin.post = origin.idata]_vars

\* C2: when the posterior has an asset index, every output row's ticker is in
\* it; tickers of the panel outside the index change nothing (the run ends as
\* it does on the panel without their rows, output included); and when no
\* ticker of the panel is in the index the output has zero rows.
C2_AssetFiltering ==
    (Ran /\ HasIndex) =>
        /\ Done => OutTickers \subseteq IndexSet
        /\ (Done /\ PanelTickers \cap IndexSet = {}) => out.rows = <<>>
        /\ LET known == [frame EXCEPT !.rows = { r \in @ : r.ticker \in IndexSet }]
               res == score_today(known, post, idata, prev)
           IN res.status = status /\ res.out = out

\* a run that completed, wrote rows, and left out a ticker of the panel that
\* the index does not hold
C2_Witness ==
    /\ Done /\ HasIndex
    /\ out.rows # <<>>
    /\ \E t \in PanelTickers : t \notin IndexSet

\* C3 (as claimed): when zero tickers remain after asset-index filtering, the
\* Scorer run fails with an error.
C3_ZeroRemainFails == (Ran /\ frame.exists /\ Scoreable = {}) => ~Done

\* C3 (amended): when zero tickers remain after asset-index filtering and the
\* posterior summary is well-formed, the run completes normally and publishes
\* an output with zero rows.
C3_ZeroRemainEmptyOutput ==
    (Ran /\ frame.exists /\ post.exists /\ idata.exists /\ WellFormed /\ Scoreable = {}) =>
        /\ Done
        /\ out.exists
        /\ out.rows = <<>>

\* a panel with rows, none of a ticker of the index, scored into an empty file
\* that replaced a file with rows
C3_Witness ==
    /\ Done /\ HasIndex
    /\ frame.rows # {}
    /\ Scoreable = {}
    /\ out.rows = <<>>
    /\ prev.rows # <<>>

\* C4: a summary that lacks the loading field or the intercept field, or whose
\* positional list differs in length from its ordering, makes the run raise
\* an error, and the score file is left as the run found it.
C4_MalformedRaisesBeforeWrite ==
    (Ran /\ post.exists /\ idata.exists /\ Malformed) => (~Done /\ out = prev)

\* a length mismatch raised ValueError and an earlier run's rows are still
\* the published output
C4_Witness ==
    /\ status = "ValueError"
    /\ Malformed
    /\ out = prev
    /\ out.rows # <<>>

\* the loading of factor c and the intercept of ticker t in the summary: by
\* position in the declared ordering for a list, by name for an object
HasLoading(c) ==
    /\ LoadingField.kind \in {"list", "dict"}
    /\ c \in Range(IF LoadingField.kind = "list" THEN FeatureOrdering
                   ELSE LoadingField.names)

LoadingOf(c) ==
    IF LoadingField.kind = "list"
    THEN LoadingField.seq[IndexOf(FeatureOrdering, c)]
    ELSE LoadingField.seq[IndexOf(LoadingField.names, c)]

HasIntercept(t) ==
    /\ InterceptField.kind \in {"list", "dict"}
    /\ t \in Range(IF InterceptField.kind = "list" THEN idata.assets
                   ELSE InterceptField.names)

InterceptOf(t) ==
    IF InterceptField.kind = "list"
    THEN InterceptField.seq[IndexOf(idata.assets, t)]
    ELSE InterceptField.seq[IndexOf(InterceptField.names, t)]

\* the FeatureRow of the panel an output row was computed from
PanelRow(r) == CHOOSE q \in frame.rows : q.ticker = r.ticker /\ q.dt = r.dt

\* factor value times loading; 0 for a factor the panel has no column of
Contribution(q, c) ==
    IF c \in frame.cols THEN FMul(q.x[c], F(LoadingOf(c))) ELSE F(0)

RECURSIVE SumOver(_, _)
SumOver(C, q) ==
    IF C = {} THEN F(0)
    ELSE LET c == CHOOSE c \in C : TRUE
         IN FAdd(Contribution(q, c), SumOver(C \ {c}, q))

\* C5: every output row's mu_1d is the intercept of the row's ticker plus the
\* sum over the 10 named factors of factor value times loading, where a
\* factor whose column the panel lacks contributes 0 (checked for summaries
\* that hold a loading for each factor and an intercept for the ticker).
C5_MuIsInterceptPlusLoadings ==
    (Done /\ \A c \in FeatureSet : HasLoading(c)) =>
        \A r \in OutRows :
            HasIntercept(r.ticker) =>
                r.mu_1d = FAdd(F(InterceptOf(r.ticker)), SumOver(FeatureSet, PanelRow(r)))

\* a row scored from a panel lacking a column whose loading is not 0, with an
\* intercept that is not 0 and factor values that add to it
C5_Witness ==
    /\ Done
    /\ \A c \in FeatureSet : HasLoading(c)
    /\ \E c \in FeatureSet \ frame.cols : LoadingOf(c) # 0
    /\ \E r \in OutRows :
          /\ HasIntercept(r.ticker)
          /\ InterceptOf(r.ticker) # 0
          /\ ~r.mu_1d.nan
          /\ r.mu_1d.v # InterceptOf(r.ticker)

\* C6: every output row's z_score is mu_1d / (sigma + epsilon), and its label
\* is "undervalued" exactly when z_score > 0.5, "overvalued" exactly when
\* z_score < -0.5 and "neutral" otherwise, 0.5 and -0.5 being "neutral".
C6_LabelFromZ ==
    Done =>
        \A r \in OutRows :
            /\ r.z_score.nan = r.mu_1d.nan
            /\ ~r.z_score.nan =>
                  /\ r.z_score.num = r.mu_1d.v
                  /\ r.z_score.den = r.sigma + Eps
                  /\ r.label = "undervalued" <=> 2 * r.z_score.num > r.z_score.den
                  /\ r.label = "overvalued" <=> 2 * r.z_score.num < -r.z_score.den
            /\ r.label \in {"undervalued", "overvalued", "neutral"}
            /\ r.z_score.nan => r.label = "neutral"

\* an output with a row at z_score exactly 0.5 and a row at exactly -0.5,
\* both "neutral"
C6_Witness ==
    /\ Done
    /\ \E r \in OutRows :
          ~r.z_score.nan /\ 2 * r.z_score.num = r.z_score.den /\ r.label = "neutral"
    /\ \E r \in OutRows :
          ~r.z_score.nan /\ 2 * r.z_score.num = -r.z_score.den /\ r.label = "neutral"

LabelRank(l) == IF l = "undervalued" THEN 1 ELSE IF l = "neutral" THEN 2 ELSE 3

\* a loading of 1 on factor c and of 0 on the others, zero intercepts, sigma 1
OneHotModel(c) ==
    /\ \A d \in FeatureSet : HasLoading(d) /\ LoadingOf(d) = (IF d = c THEN 1 ELSE 0)
    /\ \A t \in OutTickers : HasIntercept(t) /\ InterceptOf(t) = 0
    /\ \A r \in OutRows : r.sigma = 1

\* C7 (as claimed): the rows of the output are in non-increasing z_score
\* order, every "undervalued" row before every "neutral" row and every
\* "neutral" row before every "overvalued" row; under a loading of 1 on one
\* factor, zero intercepts and sigma 1 the rows are in descending order of
\* that factor's value.
C7_SortedByZ ==
    Done =>
        \A i, j \in DOMAIN out.rows :
            i < j =>
                LET a == out.rows[i]
                    b == out.rows[j]
                IN /\ (~a.z_score.nan /\ ~b.z_score.nan) =>
                          a.z_score.num * b.z_score.den >= b.z_score.num * a.z_score.den
                   /\ LabelRank(a.label) <= LabelRank(b.label)
                   /\ \A c \in frame.cols :
                          (OneHotModel(c) /\ ~a.x[c].nan /\ ~b.x[c].nan) =>
                              a.x[c].v >= b.x[c].v

\* C8: with an asset index, the output holds exactly one row for each ticker
\* that is in the index and has a FeatureRow, never two for one ticker, and
\* the row carries the date and the factor values of the ticker's FeatureRow
\* of maximum date.
C8_OneRowPerTickerFromLatest ==
    (Done /\ HasIndex) =>
        /\ OutTickers = PanelTickers \cap IndexSet
        /\ \A i, j \in DOMAIN out.rows :
              out.rows[i].ticker = out.rows[j].ticker => i = j
        /\ \A r \in OutRows :
              \E q \in frame.rows :
                  /\ q.ticker = r.ticker
                  /\ \A o \in frame.rows : o.ticker = q.ticker => o.dt <= q.dt
                  /\ r.dt = q.dt
                  /\ \A c \in frame.cols : r.x[c] = q.x[c]

\* a ticker of the index with FeatureRows on two dates and values that differ,
\* scored from the later one, next to a ticker outside the index
C8_Witness ==
    /\ Done /\ HasIndex
    /\ PanelTickers \ IndexSet # {}
    /\ \E r \in OutRows :
          \E q \in frame.rows :
              /\ q.ticker = r.ticker
              /\ q.dt < r.dt
              /\ q.x # r.x

\* C9: when a Scorer run completes, the published output is the rows of that
\* run and nothing else: one row for each ticker scoreable now, each from
\* the current panel, so a ticker an earlier run scored that is not scoreable
\* now is absent, whatever runs came before.
C9_WholesaleReplace ==
    [][(tick' # tick /\ status' = "ok") =>
          /\ out'.exists
          /\ { out'.rows[i].ticker : i \in DOMAIN out'.rows } = Scoreable
          /\ Len(out'.rows) = Cardinality(Scoreable)
          /\ \A i \in DOMAIN out'.rows :
                \E q \in frame.rows :
                    /\ q.ticker = out'.rows[i].ticker
                    /\ q.dt = out'.rows[i].dt
                    /\ \A c \in frame.cols : out'.rows[i].x[c] = q.x[c]]_vars

\* a run completed on top of an earlier run's output, and a ticker of that
\* earlier output is absent from the new one
C9_Witness ==
    /\ Done
    /\ out.rows # <<>>
    /\ \E i \in DOMAIN prev.rows : prev.rows[i].ticker \notin OutTickers

\* all loadings and all intercepts of the summary are 0
ZeroModel ==
    /\ LoadingField.kind \in {"list", "dict"}
    /\ InterceptField.kind \in {"list", "dict"}
    /\ \A i \in DOMAIN LoadingField.seq : LoadingField.seq[i] = 0
    /\ \A i \in DOMAIN InterceptField.seq : InterceptField.seq[i] = 0

\* C10 (as claimed): under a summary whose loadings and intercepts are all 0,
\* every scored row has mu_1d = 0, z_score = 0, p_pos = 0.5 and the label
\* "neutral", whatever its factor values and whatever sigma.
C10_ZeroModel ==
    (Done /\ ZeroModel) =>
        \A r \in OutRows :
            /\ r.mu_1d = F(0)
            /\ ~r.z_score.nan /\ r.z_score.num = 0
            /\ r.p_pos = "0.5"
            /\ r.label = "neutral"

(***************************************************************************)
(* Properties of build_signals, under SpecSignals.  sig.given holds the     *)
(* input frames as the first call received them.                           *)
(***************************************************************************)
Built == sig.runs = 1

\* the panel has a row of ticker t at its k-th observation
InPanel(t, k) ==
    \E r \in sig.panel : r.ticker = t /\ r.dt = sig.given.start[t] + k

\* the observation a row of the panel stands at
ObsIndex(r) == r.dt - sig.given.start[r.ticker]

\* the seven inputs a FeatureRow needs, at the k-th observation of t
SevenDefined(t, k) ==
    /\ ~mom_12_1(sig.given, t, k).nan
    /\ ~ret_1d_fwd(sig.given, t, k).nan
    /\ ~beta_mkt(sig.given, t, k).nan
    /\ ~vol_20d(sig.given, t, k).nan
    /\ ~illiq_amihud(sig.given, t, k).nan
    /\ ~macro_sens(sig.given, t, k).nan
    /\ ~log_mktcap(sig.given, t, k).nan

\* the latest snapshot of t has no usable P/E and no usable price/book
ValueUndefined(t) ==
    LET f == attach_latest_fundamentals(sig.given, t)
    IN ~Usable(f["trailing_pe"]) /\ ~Usable(f["price_to_book"])

QualityUndefined(t) ==
    LET f == attach_latest_fundamentals(sig.given, t)
    IN f["profit_margins"].nan /\ f["operating_margins"].nan /\ f["return_on_equity"].nan

IsZero(z) == ~z.nan /\ z.devn = 0

\* C11: a (ticker, date) row is in the factor panel exactly when its target,
\* beta, momentum, volatility, illiquidity, macro sensitivity and size are all
\* defined; value_z and quality_z are never missing in the panel, and are 0
\* in a row whose value or quality input is undefined.
C11_RowIffSevenDefined ==
    Built =>
        /\ \A t \in SigTickers : \A k \in 1..sig.given.n[t] :
              InPanel(t, k) <=> SevenDefined(t, k)
        /\ \A r \in sig.panel :
              /\ ~r.x["value_z"].nan /\ ~r.x["quality_z"].nan
              /\ ValueUndefined(r.ticker) => IsZero(r.x["value_z"])
              /\ QualityUndefined(r.ticker) => IsZero(r.x["quality_z"])

\* a row is in the panel though its value and quality inputs are undefined,
\* next to a row with a value factor that is not 0, and an observation with
\* everything but the macro sensitivity defined is not in the panel
C11_Witness ==
    /\ Built
    /\ \E r \in sig.panel : ValueUndefined(r.ticker) /\ QualityUndefined(r.ticker)
    /\ \E r \in sig.panel : ~IsZero(r.x["value_z"])
    /\ \E t \in SigTickers : \E k \in (MomLong + 1)..sig.given.n[t] :
          /\ ~InPanel(t, k)
          /\ macro_sens(sig.given, t, k).nan
          /\ ~beta_mkt(sig.given, t, k).nan
          /\ ~ret_1d_fwd(sig.given, t, k).nan

\* C12: no row of the panel stands at one of a ticker's first 252
\* observations, a ticker with fewer than 252 observations has no row, and
\* the call ends normally whatever the lengths of the histories.
C12_NoRowInWarmUp ==
    Built =>
        /\ sig.status = "ok"
        /\ \A r \in sig.panel : ObsIndex(r) > 252
        /\ \A t \in SigTickers :
              sig.given.n[t] < 252 => ~\E r \in sig.panel : r.ticker = t

\* a ticker with a single observation has no row in a panel that holds the
\* rows of another ticker, one of them at its 253rd observation
C12_Witness ==
    /\ Built
    /\ sig.status = "ok"
    /\ \E t \in SigTickers :
          sig.given.n[t] = 1 /\ ~\E r \in sig.panel : r.ticker = t
    /\ \E r \in sig.panel : ObsIndex(r) = 253

\* C13: the target of the row at a ticker's k-th observation is the simple
\* return from that ticker's k-th close to its (k+1)-th close, and a ticker's
\* last observation has no row.
C13_TargetIsNextReturn ==
    Built =>
        /\ \A r \in sig.panel :
              LET k == ObsIndex(r)
                  c0 == Close(sig.given, r.ticker, k)
                  c1 == Close(sig.given, r.ticker, k + 1)
              IN /\ k + 1 <= sig.given.n[r.ticker]
                 /\ ~r.ret_1d.nan
                 /\ r.ret_1d.num * c0 = (c1 - c0) * r.ret_1d.den
        /\ \A t \in SigTickers : ~InPanel(t, sig.given.n[t])

\* two tickers with closes that move differently have rows on one date, one
\* of them at the observation before its ticker's last
C13_Witness ==
    /\ Built
    /\ \E r, q \in sig.panel :
          /\ r.dt = q.dt /\ r.ticker # q.ticker
          /\ r.ret_1d # q.ret_1d
          /\ ObsIndex(r) + 1 = sig.given.n[r.ticker]

PanelDates == {r.dt : r \in sig.panel}

DateRows(d) == {r \in sig.panel : r.dt = d}

\* the value of column c at a row's observation before standardisation,
\* computed from the input frames
RawOf(r, c) == Column(sig.given, r.ticker, ObsIndex(r), c)

\* the raw values of c on date d are all defined, with a sample standard
\* deviation of at least 100 epsilon
RawSpread(c, d) ==
    LET R == DateRows(d)
        n == Cardinality(R)
        S == SumF(R, [r \in R |-> RawOf(r, c).v])
        Q == SumF(R, [r \in R |-> RawOf(r, c).v * RawOf(r, c).v])
    IN /\ \A r \in R : ~RawOf(r, c).nan
       /\ n >= 2
       /\ n * Q - S * S >= 10000 * Eps * Eps * n * (n - 1)

\* the raw values of c on date d are one and the same (a single row included)
RawConstant(c, d) == Cardinality({RawOf(r, c) : r \in DateRows(d)}) = 1

\* the mean of column c over the rows of date d is 0: the rows whose value is
\* not 0 were divided by one standard deviation and their deviations sum to 0
MeanIsZero(c, d) ==
    LET R == DateRows(d)
        NZ == {r \in R : r.x[c].devn # 0}
    IN /\ \A r \in R : ~r.x[c].nan
       /\ \A r, q \in NZ : r.x[c].n = q.x[c].n /\ r.x[c].varn = q.x[c].varn
                             /\ r.x[c].vard = q.x[c].vard
       /\ SumF(NZ, [r \in NZ |-> r.x[c].devn]) = 0

\* the sample standard deviation of column c over the m rows of date d is
\* sd / (sd + epsilon) with sd at least 100 epsilon, which is 1 within 1%:
\* sum of (devn / n)^2 over (m - 1) equals sd^2 = varn / vard
StdIsOne(c, d) ==
    LET R == DateRows(d)
        m == Cardinality(R)
    IN /\ m >= 2
       /\ \A r \in R : ~r.x[c].nan
       /\ \E r \in R :
             /\ \A q \in R : q.x[c].devn # 0 => q.x[c].n = r.x[c].n
             /\ r.x[c].varn >= 10000 * Eps * Eps * r.x[c].vard
             /\ SumF(R, [q \in R |-> q.x[c].devn * q.x[c].devn]) * r.x[c].vard
                   = r.x[c].varn * r.x[c].n * r.x[c].n * (m - 1)

C15_ZeroVarianceIsZero ==
    Built =>
        /\ sig.status = "ok"
        /\ \A d \in PanelDates : \A c \in FeatureSet :
              RawConstant(c, d) => \A r \in DateRows(d) : IsZero(r.x[c])

ByRow(d) ==
    { [ticker |-> q.ticker,
       x |-> [c \in {"value_z"} |-> value_raw_by_row(sig.given, q.ticker)]] :
          q \in DateRows(d) }

\* C18 as stated: the value factor of every row is standardised from the
\* row's own -log(P/E) when its P/E is usable, else from its own
\* -log(price/book) when that is usable, whatever the P/E of the other rows;
\* a row with neither has the neutral 0.
C18_ValueRowByRow ==
    Built =>
        \A r \in sig.panel :
            r.x["value_z"] =
                fillna(zscore(ByRow(r.dt), "value_z",
                              CHOOSE q \in ByRow(r.dt) : q.ticker = r.ticker))

(***************************************************************************)
(* Properties of the Trainer's column check, under SpecFit                 *)
(***************************************************************************)
\* the target, ticker, date and factor columns a frame does not hold
AbsentCols(fr) ==
    ({"ret_1d", "ticker", "dt"} \ fr.keys) \cup (Range(FEATURE_COLS) \ fr.cols)

DeclaredFeatures == IF idata.features # <<>> THEN idata.features ELSE FEATURE_COLS

DeclaredAssets ==
    IF idata.assets # <<>> THEN idata.assets
    ELSE [i \in DOMAIN LatestRows(frame) |-> LatestRows(frame)[i].ticker]

Reverse(s) == [i \in DOMAIN s |-> s[Len(s) + 1 - i]]

\* the value the summary holds for loadings or intercepts
ValueUnder(k1, k2) ==
    IF post.obj[k1].kind # "absent" THEN post.obj[k1] ELSE post.obj[k2]

\* the same values in the other form: a list of the ordering's length as an
\* object keyed by the ordering's names (written in another order), an object
\* with exactly the ordering's names as the list in the ordering
OtherForm(v, names) ==
    IF v.kind = "list" /\ Len(v.seq) = Len(names)
    THEN JDict(Reverse(names), Reverse(v.seq))
    ELSE IF /\ v.kind = "dict" /\ Len(v.names) = Len(names)
            /\ Range(v.names) = Range(names)
            /\ Cardinality(Range(names)) = Len(names)
    THEN JList([i \in DOMAIN names |->
                  v.seq[CHOOSE j \in DOMAIN v.names : v.names[j] = names[i]]])
    ELSE v

OtherFormPost ==
    [post EXCEPT !.obj =
        [k \in SummaryKeys |->
            IF k \in {"beta_mean", "beta"} THEN OtherForm(post.obj[k], DeclaredFeatures)
            ELSE IF k \in {"alpha_mean", "alpha"} THEN OtherForm(post.obj[k], DeclaredAssets)
            ELSE post.obj[k]]]

\* the name of the ordering that holds value number i of v
NameOfValue(v, names, i) == IF v.kind = "dict" THEN v.names[i] ELSE names[i]

\* v is a list of the ordering's length, or an object without repeated names
Resolvable(v, names) ==
    \/ v.kind = "list" /\ Len(v.seq) = Len(names)
                      /\ Cardinality(Range(names)) = Len(names)
    \/ v.kind = "dict" /\ Cardinality(Range(v.names)) = Len(v.names)

\* C19: the value at position i of a positional list goes to the i-th name of
\* the declared ordering, the value of a name-keyed object to its name, and a
\* run on the same values in the other form gives every scored row the same
\* mu_1d.
C19_FormsAgree ==
    status = "ok" =>
        /\ \A pair \in { <<ValueUnder("beta_mean", "beta"), DeclaredFeatures>>,
                         <<ValueUnder("alpha_mean", "alpha"), DeclaredAssets>> } :
              Resolvable(pair[1], pair[2]) =>
                 \A i \in DOMAIN pair[1].seq :
                    _as_float_map_from_json(pair[1], pair[2]).map[
                        NameOfValue(pair[1], pair[2], i)] = pair[1].seq[i]
        /\ LET alt == score_today(frame, OtherFormPost, idata, PriorOut)
           IN /\ alt.status = "ok"
              /\ Len(alt.out.rows) = Len(out.rows)
              /\ \A i \in DOMAIN out.rows :
                    \E j \in DOMAIN alt.out.rows :
                       /\ alt.out.rows[j].ticker = out.rows[i].ticker
                       /\ alt.out.rows[j].mu_1d = out.rows[i].mu_1d

\* a run on positional lists, whose name-keyed form is another summary, has
\* scored two rows with different mu_1d
C19_Witness ==
    /\ status = "ok"
    /\ ValueUnder("beta_mean", "beta").kind = "list"
    /\ ValueUnder("alpha_mean", "alpha").kind = "list"
    /\ OtherFormPost.obj["beta_mean"].kind = "dict"
    /\ OtherFormPost.obj["alpha_mean"].kind = "dict"
    /\ \E i, j \in DOMAIN out.rows :
          /\ ~out.rows[i].mu_1d.nan /\ ~out.rows[j].mu_1d.nan
          /\ out.rows[i].mu_1d # out.rows[j].mu_1d

(***************************************************************************)
(* Properties of export and scoring together, under Spec.  origin.mem      *)
(* holds what the fit run that wrote the summary had fitted: its asset     *)
(* index, and the posterior means by position in that index.               *)
(***************************************************************************)
\* the intercept fitted for ticker t
FittedIntercept(t) == origin.mem.alpha[IndexOf(origin.mem.assets, t)]

\* the loading fitted for factor c
FittedLoading(c) == origin.mem.beta[IndexOf(FEATURE_COLS, c)]

RECURSIVE FittedXB(_, _)
FittedXB(C, x) ==
    IF C = {} THEN F(0)
    ELSE LET c == CHOOSE c \in C : TRUE
         IN FAdd(FMul(x[c], F(FittedLoading(c))), FittedXB(C \ {c}, x))

\* a run of score_today that completed on the two files of one fit run
ScoredOneExport ==
    /\ tick' # tick
    /\ status' = "ok"
    /\ origin.post # 0
    /\ origin.post = origin.idata

\* C20: the exported intercept list is in the order of the fit run's asset
\* index, and a Scorer run on that export gives every ticker the intercept
\* fitted for it and applies every loading to the factor it was fitted for.
C20_ExportOrderMatchesScorer ==
    [][ ScoredOneExport =>
            /\ idata.assets = origin.mem.assets
            /\ post.obj["alpha_mean"] = JList(origin.mem.alpha)
            /\ \A i \in DOMAIN out'.rows :
                  LET r == out'.rows[i]
                  IN /\ r.ticker \in Range(origin.mem.assets)
                     /\ r.mu_1d = FAdd(F(FittedIntercept(r.ticker)),
                                       FittedXB(Range(FEATURE_COLS), r.x)) ]_vars

\* the files of one fit run over two assets with different fitted intercepts
\* are on disk, and a completed run has scored both
C20_Witness ==
    /\ status = "ok"
    /\ origin.post # 0 /\ origin.post = origin.idata
    /\ Len(origin.mem.assets) >= 2
    /\ origin.mem.alpha[1] # origin.mem.alpha[2]
    /\ idata.assets = origin.mem.assets
    /\ Len(out.rows) >= 2
    /\ \E i \in DOMAIN out.rows : ~out.rows[i].mu_1d.nan

(***************************************************************************)
(* Properties of the sigma used for scoring, under SpecScore               *)
(***************************************************************************)
\* the summary holds under key k a number, or a string of a number, above 0
Qualifies(k) == post.obj[k].kind \in {"num", "numstr"} /\ post.obj[k].num > 0

\* the summary with sigma_mean = 1 and no other sigma key
PostWithPlainSigma ==
    [post EXCEPT !.obj = [post.obj EXCEPT !["sigma_mean"] = JNum(1),
                                         !["sigma"] = Absent,
                                         !["sigma_mean_"] = Absent]]

\* C21: the sigma of every scored row is above 0: it is the value under
\* sigma_mean if that qualifies, else under sigma, else under sigma_mean_,
\* else the floor 1e-6; and what the sigma keys hold never makes a run fail:
\* the run ends as it does on the same summary with a plain positive sigma.
C21_SigmaPositiveFirstAlias ==
    status # "none" =>
        /\ status = score_today(frame, PostWithPlainSigma, idata, PriorOut).status
        /\ \A i \in DOMAIN out.rows :
              status = "ok" =>
                 /\ out.rows[i].sigma > 0
                 /\ out.rows[i].sigma =
                       IF Qualifies("sigma_mean") THEN post.obj["sigma_mean"].num
                       ELSE IF Qualifies("sigma") THEN post.obj["sigma"].num
                       ELSE IF Qualifies("sigma_mean_") THEN post.obj["sigma_mean_"].num
                       ELSE 1000000 * Eps

\* a run has scored rows with the value of the third alias, the first being
\* a number that is not positive and the second a string that is no number
C21_Witness ==
    /\ status = "ok"
    /\ out.rows # <<>>
    /\ post.obj["sigma_mean"].kind = "num" /\ post.obj["sigma_mean"].num <= 0
    /\ post.obj["sigma"].kind = "str"
    /\ Qualifies("sigma_mean_")
    /\ out.rows[1].sigma = post.obj["sigma_mean_"].num

(***************************************************************************)
(* Properties of the frame of a training run, under SpecFit                *)
(***************************************************************************)
\* the dates of the rows of ticker t in a list of (ticker, dt) keys
KeyDates(ks, t) == {ks[i][2] : i \in {j \in DOMAIN ks : ks[j][1] = t}}

\* the dates, from the cutoff on, of the rows of ticker t in the frame on disk
RecentDates(t) == {r.dt : r \in {q \in frame.rows : q.ticker = t /\ q.dt >= 2}}

\* the rows of the frame on disk are told apart by ticker and date
FrameKeysDistinct ==
    Cardinality({<<r.ticker, r.dt>> : r \in frame.rows}) = Cardinality(frame.rows)

\* a step in which a run of train_pymc.main fits
MainFits == fit.pc = "idle" /\ fit'.pc = "fitted" /\ fit'.called = "main"

\* C22: of a frame whose rows are told apart by ticker and date, main hands
\* to the fit, for each ticker, at most 500 rows, the latest of the ticker's
\* rows dated at or after the cutoff, and no row of a ticker outside the
\* fixed universe; every row used in the fit has its target and all ten
\* factors defined.
C22_FitFrameLatestCappedComplete ==
    [][ (MainFits /\ FrameKeysDistinct) =>
          LET h == fit'.mem.handed
              u == fit'.mem.df
              handedKeys == {h[i] : i \in DOMAIN h}
              usedKeys == {u[j] : j \in DOMAIN u}
              universe == {"AAPL", "MSFT", "AMZN", "GOOG", "META", "NVDA", "CRM", "TSM"}
          IN /\ \A i \in DOMAIN h : h[i][1] \in universe
             /\ Cardinality(handedKeys) = Len(h)
             /\ \A t \in universe :
                   LET got == KeyDates(h, t)
                       recent == RecentDates(t)
                       oldest == CHOOSE e \in got : \A d \in got : e <= d
                   IN /\ Cardinality(got) <= 500
                      /\ got \subseteq recent
                      /\ Cardinality(got) =
                            IF Cardinality(recent) < 500 THEN Cardinality(recent) ELSE 500
                      /\ \A d \in recent \ got : d < oldest
             /\ usedKeys \subseteq handedKeys
             /\ \A r \in frame.rows :
                   <<r.ticker, r.dt>> \in usedKeys =>
                      /\ ~r.ret_1d.nan
                      /\ Cardinality(DOMAIN r.x) = 10
                      /\ \A c \in DOMAIN r.x : ~r.x[c].nan ]_vars

\* main has fitted on a frame in which a ticker has more than 500 rows from
\* the cutoff on, of which 500 were handed over, a ticker outside the
\* universe has rows, and a handed row with a missing factor was left out
C22_Witness ==
    /\ fit.pc = "fitted" /\ fit.called = "main"
    /\ FrameKeysDistinct
    /\ Cardinality(RecentDates("AAPL")) > 500
    /\ Cardinality(KeyDates(fit.mem.handed, "AAPL")) = 500
    /\ \E r \in frame.rows : r.ticker = "TSLA" /\ r.dt >= 2
    /\ Len(fit.mem.df) < Len(fit.mem.handed)
    /\ fit.mem.df # <<>>

(***************************************************************************)
(* Properties of the news and credit columns, under SpecSignals            *)
(***************************************************************************)
\* the news frame holds no aggregate for the row's ticker
NoAggregate(r) == r.ticker \notin sig.given.news

\* the macro frame holds no credit spread for the row's date
NoCreditValue(r) == ~sig.given.credit \/ r.dt \notin sig.given.macro

\* the same frames with a news aggregate for every ticker and a credit spread
\* on every date of the macro frame
WithNewsAndCredit == [sig.given EXCEPT !.news = {"AAPL", "MSFT", "SPY"}, !.credit = TRUE]

MainAt(n, pc) == fit.called = "main" /\ fit.run = n /\ fit.pc = pc

\* C24: a run of main has printed its diagnostics when it exports, and every
\* run of main that has fitted exports its posterior summary, whatever the
\* effective sample size, r_hat and predictive check it printed.
C24_DiagnosticsNeverGateExport ==
    /\ [](\A n \in 1..MaxFitRuns :
             MainAt(n, "exported") =>
                /\ fit.diag.r_hat > 0
                /\ origin.post = n /\ post.exists)
    /\ \A n \in 1..MaxFitRuns : \A r \in {100, 150} :
          (MainAt(n, "fitted") /\ fit.diag.r_hat = r)
             ~> (MainAt(n, "exported") /\ fit.diag.r_hat = r)

\* a run of main has exported after diagnostics with an r_hat of 1.5 and an
\* effective sample size of 10
C24_Witness ==
    /\ MainAt(1, "exported")
    /\ fit.diag.r_hat = 150 /\ fit.diag.ess_bulk = 10
    /\ origin.post = 1 /\ post.exists

(***************************************************************************)
(* Properties of the factors shared by the tickers of a date, under        *)
(* SpecSignals                                                             *)
(***************************************************************************)
\* C25: the macro and the credit sensitivity are 0 in every row of every
\* date with two or more rows, the news sentiment is 0 in every row when
\* there is no news frame, and in no row of the panel do the two shared
\* factors add anything to a mu_1d: their value there is 0, whatever the
\* loading it is multiplied by.
C25_SharedFactorsAreZero ==
    Built =>
        /\ \A d \in PanelDates :
              Cardinality(DateRows(d)) >= 2 =>
                 \A r \in DateRows(d) :
                    IsZero(r.x["macro_sens"]) /\ IsZero(r.x["credit_sens"])
        /\ sig.given.news = {} => \A r \in sig.panel : IsZero(r.x["news_sent_7d"])
        /\ \A r \in sig.panel :
              IsZero(r.x["macro_sens"]) /\ IsZero(r.x["credit_sens"])

(***************************************************************************)
(* Properties of eval_model, under SpecFit                                 *)
(***************************************************************************)
\* the trace on disk was saved by a run of train_pymc.main, which read the
\* frame on disk (no step of SpecFit replaces the frame)
TraceOfMain == idata.exists /\ origin.idata > 0 /\ origin.by = "main"

\* C26: a run of eval_model on the frame and the trace of a run of main
\* passes its length assertion, and pairs each prediction with the row of
\* the frame it was made for.
C26_EvalPairsPredictionWithItsRow ==
    [][ (ev'.runs = ev.runs + 1 /\ TraceOfMain) =>
           /\ ev'.status = "ok"
           /\ \A i \in DOMAIN ev'.pairs : ev'.pairs[i].pred_of = ev'.pairs[i].row ]_vars

(***************************************************************************)
(* Properties of the scored-news table, under SpecNews                     *)
(***************************************************************************)
\* C27: after any sequence of runs news_scored holds at most one row per
\* (content_hash, model_name) and the scorer was called at most once per
\* pair, whatever the number of raw rows with the hash; a run that finds no
\* article to score adds no row; a run adds rows only for hashes its model
\* had not scored.
C27_OneScorePerArticleAndModel ==
    [][ /\ \A h \in NewsHashes : \A m \in {"ProsusAI/finbert", "other"} :
             /\ news'.scored[<<h, m>>] <= 1
             /\ news'.calls[<<h, m>>] <= 1
             /\ news.scored[<<h, m>>] > 0 =>
                   news'.scored[<<h, m>>] = news.scored[<<h, m>>]
        /\ news'.todo = 0 => news'.scored = news.scored ]_vars

\* a hash with two or more raw rows has a single scored row under the
\* default model, after two runs of which the last found nothing to score
C27_Witness ==
    /\ news.raw[<<"AAPL", "h1">>] + news.raw[<<"MSFT", "h1">>] >= 2
    /\ news.scored[<<"h1", "ProsusAI/finbert">>] = 1
    /\ news.runs >= 2
    /\ news.todo = 0

(***************************************************************************)
(* Properties of md_to_html, under SpecMarkdown                            *)
(***************************************************************************)
\* the block tags of html from the i-th on are balanced and nested, open
\* being the blocks open so far, innermost last; no code block opens while
\* a list is open
RECURSIVE BlocksNested(_, _, _)
BlocksNested(html, i, open) ==
    IF i > Len(html) THEN open = <<>>
    ELSE CASE html[i] = "<ul>" -> BlocksNested(html, i + 1, Append(open, "ul"))
           [] html[i] = "<pre><code>" ->
                 /\ \A j \in DOMAIN open : open[j] # "ul"
                 /\ BlocksNested(html, i + 1, Append(open, "pre"))
           [] html[i] = "</ul>" ->
                 /\ open # <<>> /\ open[Len(open)] = "ul"
                 /\ BlocksNested(html, i + 1, SubSeq(open, 1, Len(open) - 1))
           [] html[i] = "</code></pre>" ->
                 /\ open # <<>> /\ open[Len(open)] = "pre"
                 /\ BlocksNested(html, i + 1, SubSeq(open, 1, Len(open) - 1))
           [] OTHER -> BlocksNested(html, i + 1, open)

\* C28: in the output of md_to_html every <ul> is closed before a
\* <pre><code> opens and before the output ends, every <pre><code> is closed
\* by </code></pre>, and a closing tag closes the innermost open block.
C28_BlockTagsNested == md.done => BlocksNested(md.html, 1, <<>>)

====
